---- MODULE Spec2Model ----
(***************************************************************************)
(* A model of the block/transaction application pipeline of xvm:           *)
(*   - BaseChain / Chain / MiningChain   (src/xvm/chains/base.py)          *)
(*   - VM                                (src/xvm/vm/base.py)              *)
(* The chain database, the account state and the fork's header rules are   *)
(* collaborators whose code lives outside src/; they are modelled from the *)
(* specification.                                                          *)
(***************************************************************************)
EXTENDS Integers, Sequences, FiniteSets, TLC

VARIABLES
    vm_configuration,   \* BaseChain.vm_configuration: <<[start_block, vm_class], ...>>
    chaindb,            \* Chain.chaindb, the chain database behind the chain
    header,             \* MiningChain.header, the in-progress working header
    vm,                 \* one VM instance inside apply_all_transactions
    ret                 \* what the last operation returned or raised

vars == <<vm_configuration, chaindb, header, vm, ret>>

(***************************************************************************)
(* Bounds of the model.                                                    *)
(***************************************************************************)
MaxConfigLen == 3       \* longest vm_configuration explored
MaxStartBlock == 3      \* largest starting block of a configuration entry
MaxBlockNumber == 4     \* largest block number asked for

VMClasses == {"VMA", "VMB"}

None == "None"

(***************************************************************************)
(* Rule-set selection: BaseChain.get_vm_class_for_block_number             *)
(***************************************************************************)

\* xvm.validation.validate_block_number: a block number is a non-negative integer
validate_block_number(block_number) == block_number \in Nat

\* A mutant of the scan: the configuration is walked first to last.
RECURSIVE scan_forward(_, _, _)
scan_forward(cfg, i, block_number) ==
    IF i > Len(cfg)
    THEN [err |-> "VMNotFound", value |-> None]
    ELSE IF block_number >= cfg[i].start_block
         THEN [err |-> "ok", value |-> cfg[i].vm_class]
         ELSE scan_forward(cfg, i + 1, block_number)

\* A mutant of the scan: a block number before the first entry gets the first
\* entry's rule-set in place of a failure.
RECURSIVE scan_default_first(_, _, _)
scan_default_first(cfg, i, block_number) ==
    IF i = 0
    THEN [err |-> "ok", value |-> cfg[1].vm_class]
    ELSE IF block_number >= cfg[i].start_block
         THEN [err |-> "ok", value |-> cfg[i].vm_class]
         ELSE scan_default_first(cfg, i - 1, block_number)

\* for start_block, vm_class in reversed(cls.vm_configuration): ... else: raise
\* i is the position the reversed walk has come to; 0 is the for's else branch.
RECURSIVE scan_reversed(_, _, _)
scan_reversed(cfg, i, block_number) ==
    IF i = 0
    THEN [err |-> "VMNotFound", value |-> None]
    ELSE IF block_number >= cfg[i].start_block
         THEN [err |-> "ok", value |-> cfg[i].vm_class]
         ELSE scan_reversed(cfg, i - 1, block_number)

\* (vm_configuration is a class attribute every chain class of the model defines,
\* so the AttributeError of an undefined configuration has no state to occur in.)
vm_class_forward(cfg, block_number) ==
    IF ~validate_block_number(block_number)
    THEN [err |-> "ValidationError", value |-> None]
    ELSE scan_forward(cfg, 1, block_number)

vm_class_default_first(cfg, block_number) ==
    IF ~validate_block_number(block_number)
    THEN [err |-> "ValidationError", value |-> None]
    ELSE scan_default_first(cfg, Len(cfg), block_number)

get_vm_class_for_block_number(cfg, block_number) ==
    IF ~validate_block_number(block_number)
    THEN [err |-> "ValidationError", value |-> None]
    ELSE scan_reversed(cfg, Len(cfg), block_number)

\* The configurations a chain class can carry: non-empty, sorted ascending by
\* starting block (an ordered mapping from starting block to rule-set).
IsSortedConfig(cfg) ==
    /\ Len(cfg) >= 1
    /\ \A i \in 1..(Len(cfg) - 1) : cfg[i].start_block < cfg[i + 1].start_block

ConfigEntries == [start_block : 0..MaxStartBlock, vm_class : VMClasses]

SortedConfigs ==
    UNION { { cfg \in [1..n -> ConfigEntries] : IsSortedConfig(cfg) } : n \in 1..MaxConfigLen }

NoCall == [op |-> "none"]

\* The specification of rule-set selection: any sorted configuration, asked for
\* the rule-set of any block number.
InitRuleSet ==
    /\ vm_configuration \in SortedConfigs
    /\ chaindb = None
    /\ header = None
    /\ vm = None
    /\ ret = NoCall

GetVMClassForBlockNumber(n) ==
    /\ ret' = [op |-> "get_vm_class_for_block_number", block_number |-> n]
              @@ get_vm_class_for_block_number(vm_configuration, n)
    /\ UNCHANGED <<vm_configuration, chaindb, header, vm>>

NextRuleSet == \E n \in 0..MaxBlockNumber : GetVMClassForBlockNumber(n)

SpecRuleSet == InitRuleSet /\ [][NextRuleSet]_vars

(***************************************************************************)
(* Headers, blocks, transactions and the account state.                    *)
(***************************************************************************)
MaxTxs == 3             \* longest transaction sequence handed to a VM
Nonces == {0, 1}           \* the nonces a transaction carries

Accounts == {"a", "b"}
AccountOrder == <<"a", "b">>
GasValues == {1, 2}                 \* gas a transaction's execution uses

\* A signed transaction: sender, nonce, and the gas its execution uses.
Transactions == [sender : Accounts, nonce : Nonces, gas : GasValues]

GENESIS_PARENT_HASH == <<>>
BLANK_ROOT_HASH == <<"trie", <<>>>>

\* BlockHeader.hash: the digest of the header's fields (collision-free).
Hash(h) ==
    <<h.block_number, h.parent_hash, h.gas_used, h.state_root,
      h.transaction_root, h.receipt_root, h.extra_data, h.mix_hash>>

\* make_trie_root_and_nodes: the root commits to the items in their order.
make_trie_root(items) == <<"trie", items>>
trie_items(root) == root[2]

\* The state root commits to every account's nonce.
make_state_root(accounts) == [i \in 1..Len(AccountOrder) |-> accounts[AccountOrder[i]]]
accounts_at(state_root) ==
    [x \in Accounts |-> state_root[CHOOSE i \in 1..Len(AccountOrder) : AccountOrder[i] = x]]

GenesisAccounts == [x \in Accounts |-> 0]

\* VM.create_execution_context: the block-scoped parameters a state executes
\* under, taken from a header
create_execution_context(hdr) == [block_number |-> hdr.block_number]

\* The State collaborator: the pending account values, the journal's open
\* snapshots (each the account values at the time it was taken), the account
\* values at the last lock_changes (what the VM holds to be un-revertable),
\* the execution context, and the accounts whose storage nodes the store
\* cannot resolve.
State_new(db, execution_context, state_root) ==
    [accounts |-> accounts_at(state_root), snapshots |-> <<>>,
     locked |-> accounts_at(state_root), context |-> execution_context,
     missing |-> db.missing]

\* VM.build_state
build_state(db, hdr) == State_new(db, create_execution_context(hdr), hdr.state_root)

State_snapshot(state) == [state EXCEPT !.snapshots = Append(@, state.accounts)]
State_revert(state, token) ==
    [state EXCEPT !.accounts = state.snapshots[token],
                  !.snapshots = SubSeq(@, 1, token - 1)]
State_commit(state, token) == [state EXCEPT !.snapshots = SubSeq(@, 1, token - 1)]
State_lock_changes(state) == [state EXCEPT !.locked = state.accounts]
State_state_root(state) == make_state_root(state.accounts)

NoComputation == [gas_used |-> 0, logs |-> <<>>]
NoReceipt == [gas_used |-> 0, logs |-> <<>>]

\* State.apply_transaction: intrinsic validation (the nonce) runs before any
\* execution and leaves the state alone; execution bumps the sender's nonce and
\* then reads the sender's storage, which the store may be unable to resolve.
State_apply_transaction(state, tx) ==
    IF tx.nonce # state.accounts[tx.sender]
    THEN [err |-> "ValidationError", state |-> state, computation |-> NoComputation]
    ELSE LET bumped == [state EXCEPT !.accounts[tx.sender] = @ + 1]
         IN IF tx.sender \in state.missing
            THEN [err |-> "EVMMissingData", state |-> bumped, computation |-> NoComputation]
            ELSE [err |-> "ok", state |-> bumped,
                  computation |-> [gas_used |-> tx.gas, logs |-> <<tx.sender, tx.nonce>>]]

\* make_receipt: the receipt carries the cumulative gas used in the block
make_receipt(base_header, tx, computation, state) ==
    [gas_used |-> base_header.gas_used + computation.gas_used, logs |-> computation.logs]

validate_receipt(receipt) == receipt.gas_used \in Nat

\* add_receipt_to_header: the header's gas_used becomes the receipt's cumulative gas
add_receipt_to_header(old_header, receipt) == [old_header EXCEPT !.gas_used = receipt.gas_used]

(***************************************************************************)
(* VM.apply_transaction and VM.apply_all_transactions                      *)
(***************************************************************************)
\* VM.apply_transaction after state.apply_transaction has answered (lines 181-184)
apply_transaction_receipt(hdr, tx, applied) ==
    IF applied.err # "ok"
    THEN [err |-> applied.err, state |-> applied.state,
          receipt |-> NoReceipt, computation |-> NoComputation]
    ELSE IF ~validate_receipt(make_receipt(hdr, tx, applied.computation, applied.state))
    THEN [err |-> "ValidationError", state |-> applied.state,
          receipt |-> NoReceipt, computation |-> NoComputation]
    ELSE [err |-> "ok", state |-> applied.state,
          receipt |-> make_receipt(hdr, tx, applied.computation, applied.state),
          computation |-> applied.computation]

\* VM.apply_transaction
VM_apply_transaction(state, hdr, tx) ==
    apply_transaction_receipt(hdr, tx,
        State_apply_transaction(State_lock_changes(state), tx))

\* The locals of apply_all_transactions before the loop (lines 254-258)
loop_start(state, base_header) ==
    [state |-> state, err |-> "ok",
     previous_header |-> base_header, result_header |-> base_header,
     receipts |-> <<>>, computations |-> <<>>, applied_transactions |-> <<>>]

\* The loop body after apply_transaction has returned or raised (lines 267-288);
\* snapshot is the token taken on line 261 and r the outcome of lines 263-266.
loop_body_outcome(acc, tx, snapshot, r) ==
    IF r.err = "ValidationError"
    THEN [acc EXCEPT !.state = r.state]                             \* continue
    ELSE IF r.err = "EVMMissingData"
    THEN [acc EXCEPT !.state = State_revert(r.state, snapshot), !.err = "EVMMissingData"]
    ELSE [acc EXCEPT !.state = r.state,
                     !.result_header = add_receipt_to_header(acc.previous_header, r.receipt),
                     !.previous_header = add_receipt_to_header(acc.previous_header, r.receipt),
                     !.receipts = Append(@, r.receipt),
                     !.computations = Append(@, r.computation),
                     !.applied_transactions = Append(@, tx)]

\* A mutant of the loop body: a transaction that fails validation is recorded
\* like an applied one.
loop_body_keeps_invalid(acc, tx) ==
    loop_body_outcome(acc, tx, Len(acc.state.snapshots) + 1,
        [VM_apply_transaction(State_snapshot(acc.state), acc.previous_header, tx)
            EXCEPT !.err = IF @ = "ValidationError" THEN "ok" ELSE @])

\* A mutant of the loop body: the rolling header is not advanced, so every
\* receipt is made against the base header and the gas of the earlier
\* transactions is lost.
loop_body_outcome_stale(acc, tx, snapshot, r) ==
    IF r.err = "ValidationError"
    THEN [acc EXCEPT !.state = r.state]
    ELSE IF r.err = "EVMMissingData"
    THEN [acc EXCEPT !.state = State_revert(r.state, snapshot), !.err = "EVMMissingData"]
    ELSE [acc EXCEPT !.state = r.state,
                     !.result_header = add_receipt_to_header(acc.previous_header, r.receipt),
                     !.receipts = Append(@, r.receipt),
                     !.computations = Append(@, r.computation),
                     !.applied_transactions = Append(@, tx)]

loop_body_no_rolling_header(acc, tx) ==
    loop_body_outcome_stale(acc, tx, Len(acc.state.snapshots) + 1,
        VM_apply_transaction(State_snapshot(acc.state), acc.previous_header, tx))

\* A mutant of the loop body: missing data is propagated without the revert.
loop_body_no_revert(acc, tx) ==
    IF VM_apply_transaction(State_snapshot(acc.state), acc.previous_header, tx).err
           = "EVMMissingData"
    THEN [acc EXCEPT
            !.state = VM_apply_transaction(State_snapshot(acc.state),
                                           acc.previous_header, tx).state,
            !.err = "EVMMissingData"]
    ELSE loop_body_outcome(acc, tx, Len(acc.state.snapshots) + 1,
             VM_apply_transaction(State_snapshot(acc.state), acc.previous_header, tx))

\* A mutant of the loop body: a transaction that fails validation is skipped
\* with its sender's nonce consumed.
loop_body_skip_keeps_changes(acc, tx) ==
    IF VM_apply_transaction(State_snapshot(acc.state), acc.previous_header, tx).err
           = "ValidationError"
    THEN [acc EXCEPT !.state = [State_snapshot(acc.state) EXCEPT
                                   !.accounts[tx.sender] = @ + 1]]
    ELSE loop_body_outcome(acc, tx, Len(acc.state.snapshots) + 1,
             VM_apply_transaction(State_snapshot(acc.state), acc.previous_header, tx))

\* A mutant of the loop body: every transaction is executed on the account
\* values the block started from.
loop_body_on_block_start(acc, tx) ==
    loop_body_outcome(acc, tx, Len(acc.state.snapshots) + 1,
        VM_apply_transaction(
            State_snapshot([acc.state EXCEPT
                !.accounts = accounts_at(acc.previous_header.state_root)]),
            acc.previous_header, tx))

\* A mutant of the loop body: on missing data the state is reverted to the
\* oldest open snapshot.
loop_body_reverts_to_first(acc, tx) ==
    loop_body_outcome(acc, tx, 1,
        VM_apply_transaction(State_snapshot(acc.state), acc.previous_header, tx))

\* One iteration of the for loop of apply_all_transactions (lines 260-288)
loop_body(acc, tx) ==
    loop_body_outcome(acc, tx, Len(acc.state.snapshots) + 1,
        VM_apply_transaction(State_snapshot(acc.state), acc.previous_header, tx))

\* The loop from transaction i on; it stops at the first raise.
RECURSIVE loop_from(_, _, _)
loop_from(acc, transactions, i) ==
    IF i > Len(transactions) \/ acc.err # "ok"
    THEN acc
    ELSE loop_from(loop_body(acc, transactions[i]), transactions, i + 1)

\* What apply_all_transactions returns from the loop's locals (lines 290-294):
\* a tuple of four.
loop_return(acc) ==
    <<acc.result_header, acc.applied_transactions, acc.receipts, acc.computations>>

apply_all_result(acc) ==
    [err |-> acc.err, state |-> acc.state,
     value |-> IF acc.err = "ok" THEN loop_return(acc) ELSE <<>>]

\* A mutant of VM.apply_all_transactions: the block numbers are compared once
\* the transactions have run.
apply_all_transactions_checked_late(state, vm_header, transactions, base_header) ==
    IF base_header.block_number # vm_header.block_number
    THEN [err |-> "ValidationError",
          state |-> loop_from(loop_start(state, base_header), transactions, 1).state,
          value |-> <<>>]
    ELSE apply_all_result(loop_from(loop_start(state, base_header), transactions, 1))

\* VM.apply_all_transactions, start to return, on a VM whose header is vm_header
apply_all_transactions(state, vm_header, transactions, base_header) ==
    IF base_header.block_number # vm_header.block_number
    THEN [err |-> "ValidationError", state |-> state, value |-> <<>>]
    ELSE apply_all_result(loop_from(loop_start(state, base_header), transactions, 1))

GenesisHeader ==
    [block_number |-> 0, parent_hash |-> GENESIS_PARENT_HASH, gas_used |-> 0,
     state_root |-> make_state_root(GenesisAccounts),
     transaction_root |-> BLANK_ROOT_HASH, receipt_root |-> BLANK_ROOT_HASH,
     extra_data |-> 0, mix_hash |-> 0]

\* VM.create_header_from_parent: the skeleton of the next header
VM_create_header_from_parent(parent) ==
    [block_number |-> parent.block_number + 1, parent_hash |-> Hash(parent),
     gas_used |-> 0, state_root |-> parent.state_root,
     transaction_root |-> BLANK_ROOT_HASH, receipt_root |-> BLANK_ROOT_HASH,
     extra_data |-> 0, mix_hash |-> 0]

(***************************************************************************)
(* The chain database collaborator (ChainDB / HeaderDB).                   *)
(*   headers     the persisted headers                                     *)
(*   canonical   canonical[n + 1] is the hash of the canonical block n     *)
(*   head        the hash of the canonical head                            *)
(*   state_roots the state roots persisted to the account database         *)
(*   tries       the transaction and receipt tries persisted               *)
(*   tx_index    the lookups of the canonical transactions: transaction,   *)
(*               block number and position                                 *)
(*   missing     the accounts whose storage nodes the store lacks          *)
(***************************************************************************)
ChainDB_has_header(db, hash) == \E h \in db.headers : Hash(h) = hash

ChainDB_get_block_header_by_hash(db, hash) ==
    IF ChainDB_has_header(db, hash)
    THEN [err |-> "ok", value |-> CHOOSE h \in db.headers : Hash(h) = hash]
    ELSE [err |-> "HeaderNotFound", value |-> [block_number |-> -1]]

ChainDB_get_canonical_head(db) == CHOOSE h \in db.headers : Hash(h) = db.head

ChainDB_persist_trie_data_dict(db, root) == [db EXCEPT !.tries = @ \cup {root}]

\* The hashes from the genesis block to header h, following the parent hashes.
RECURSIVE chain_to(_, _)
chain_to(hdrs, h) ==
    IF h.block_number = 0
    THEN <<Hash(h)>>
    ELSE Append(chain_to(hdrs, CHOOSE p \in hdrs : Hash(p) = h.parent_hash), Hash(h))

\* The transaction lookups of the canonical chain path: each transaction of each
\* block on it, with the block's number and the transaction's position
transaction_lookups(hdrs, path) ==
    UNION { { [transaction |-> trie_items(h.transaction_root)[i],
               block_number |-> h.block_number, index |-> i - 1] :
                 i \in 1..Len(trie_items(h.transaction_root)) } :
            h \in { x \in hdrs : \E k \in 1..Len(path) : path[k] = Hash(x) } }

\* ChainDB.persist_block once the header is stored: path is the ancestry of the
\* new header, genesis first.
persist_block_canonical(db, stored, h, path) ==
    IF h.block_number > ChainDB_get_canonical_head(db).block_number
    THEN [err |-> "ok",
          db |-> [stored EXCEPT !.canonical = path, !.head = Hash(h),
                                !.tx_index = transaction_lookups(stored.headers, path)],
          new |-> SelectSeq(path, LAMBDA x :
                     \A i \in 1..Len(db.canonical) : db.canonical[i] # x),
          old |-> SelectSeq(db.canonical, LAMBDA x :
                     \A i \in 1..Len(path) : path[i] # x)]
    ELSE [err |-> "ok", db |-> stored, new |-> <<>>, old |-> <<>>]

persist_block_stored(db, stored, h) ==
    persist_block_canonical(db, stored, h, chain_to(stored.headers, h))

\* ChainDB.persist_block: writes the header and the block's tries; the block
\* becomes the canonical head when it scores higher than the current head, and
\* the canonical index then follows its ancestry. Returns the newly canonical
\* and the displaced hashes.
ChainDB_persist_block(db, block) ==
    IF block.header.block_number > 0 /\ ~ChainDB_has_header(db, block.header.parent_hash)
    THEN [err |-> "ParentNotFound", db |-> db, new |-> <<>>, old |-> <<>>]
    ELSE persist_block_stored(db,
             [db EXCEPT !.headers = @ \cup {block.header},
                        !.tries = @ \cup {make_trie_root(block.transactions)}],
             block.header)

\* Block.from_header: the block of a header, its transactions read back from
\* the transaction trie
Block_from_header(db, hdr) ==
    [header |-> hdr, transactions |-> trie_items(hdr.transaction_root)]
Block_get_receipts(db, block) == trie_items(block.header.receipt_root)

\* State.persist: flushes the pending account values; their root becomes durable
State_persist(db, state) == [db EXCEPT !.state_roots = @ \cup {State_state_root(state)}]

extra_data_max_bytes == 32

\* VM.validate_header: the rule-set's header rules against the parent
VM_validate_header(hdr, parent) ==
    /\ hdr.block_number = parent.block_number + 1
    /\ hdr.parent_hash = Hash(parent)
    /\ hdr.extra_data <= extra_data_max_bytes

\* VM.validate_block: the rule-set's rules for a finished block
VM_validate_block(db, block) ==
    /\ block.header.extra_data <= extra_data_max_bytes
    /\ block.header.transaction_root = make_trie_root(block.transactions)
    /\ block.header.state_root \in db.state_roots

\* validate_imported_block_unchanged: the hash-relevant fields of the recomputed
\* block against the caller's block
validate_imported_block_unchanged(imported_block, original_block) ==
    /\ imported_block.header.state_root = original_block.header.state_root
    /\ imported_block.header.gas_used = original_block.header.gas_used
    /\ imported_block.header.receipt_root = original_block.header.receipt_root
    /\ imported_block.header.transaction_root = original_block.header.transaction_root
    /\ Hash(imported_block.header) = Hash(original_block.header)

NoBlock == [header |-> [block_number |-> -1], transactions |-> <<>>]

(***************************************************************************)
(* VM: blocks (src/xvm/vm/base.py)                                         *)
(***************************************************************************)
\* A mutant of VM.set_block_transactions: the roots are written into the
\* header and the trie nodes are not persisted.
set_block_transactions_unpersisted(db, base_block, new_header, transactions, receipts) ==
    [db |-> db,
     block |-> [header |-> [new_header EXCEPT
                               !.transaction_root = make_trie_root(transactions),
                               !.receipt_root = make_trie_root(receipts)],
                transactions |-> transactions]]

\* VM.set_block_transactions
VM_set_block_transactions(db, base_block, new_header, transactions, receipts) ==
    LET tx_root_hash == make_trie_root(transactions)
        receipt_root_hash == make_trie_root(receipts)
    IN  [db |-> ChainDB_persist_trie_data_dict(
                    ChainDB_persist_trie_data_dict(db, tx_root_hash), receipt_root_hash),
         block |-> [header |-> [new_header EXCEPT !.transaction_root = tx_root_hash,
                                                  !.receipt_root = receipt_root_hash],
                    transactions |-> transactions]]

\* VM.pack_block: the header fields given by keyword are written into the header;
\* extra is the extra_data keyword, or -1 when it is not given
VM_pack_block(block, extra) ==
    IF extra = -1 THEN block ELSE [block EXCEPT !.header.extra_data = extra]

\* VM.finalize_block after the reward step (lines 417-434)
finalize_block_persist(db, rewarded, block) ==
    [db |-> State_persist(db, rewarded), state |-> rewarded,
     block |-> [block EXCEPT !.header.state_root = State_state_root(rewarded)]]

\* VM.finalize_block: the reward step inside its own snapshot (it assigns
\* nothing and cannot fail), then the state is persisted and its root written
\* into the header
VM_finalize_block(db, state, block) ==
    finalize_block_persist(db,
        IF block.header.block_number > 0
        THEN State_commit(State_snapshot(state), Len(state.snapshots) + 1)
        ELSE state,
        block)

\* VM.mine_block after finalize_block (lines 352-355)
mine_block_validate(final) ==
    IF ~VM_validate_block(final.db, final.block)
    THEN [err |-> "ValidationError", db |-> final.db, block |-> NoBlock]
    ELSE [err |-> "ok", db |-> final.db, block |-> final.block]

\* A mutant of VM.mine_block: the finalized block is returned without the
\* validation.
mine_block_unvalidated(db, state, block, extra) ==
    [err |-> "ok",
     db |-> VM_finalize_block(db, state, VM_pack_block(block, extra)).db,
     block |-> VM_finalize_block(db, state, VM_pack_block(block, extra)).block]

\* VM.mine_block
VM_mine_block(db, state, block, extra) ==
    mine_block_validate(VM_finalize_block(db, state, VM_pack_block(block, extra)))

\* Tuple unpacking into n targets: a ValueError unless the tuple holds n values
unpacks_into(value, n) == Len(value) = n

\* VM.import_block after set_block_transactions (line 344)
import_block_mine(filled, state) == VM_mine_block(filled.db, state, filled.block, -1)

\* VM.import_block after apply_all_transactions (lines 338-344); vm_block is
\* the VM's block and applied what apply_all_transactions returned or raised
import_block_applied(db, vm_block, block, applied) ==
    IF applied.err # "ok"
    THEN [err |-> applied.err, db |-> db, block |-> NoBlock]
    ELSE IF ~unpacks_into(applied.value, 3)         \* new_header, receipts, _ = ...
    THEN [err |-> "ValueError", db |-> db, block |-> NoBlock]
    ELSE import_block_mine(
             VM_set_block_transactions(db, vm_block, applied.value[1],
                                       block.transactions, applied.value[2]),
             applied.state)

\* VM.import_block once the VM's block carries the imported header's
\* parameters (lines 322-344); hdr is the header the transactions start from
import_block_configured(db, vm_block, block, hdr) ==
    import_block_applied(db, vm_block, block,
        apply_all_transactions(
            State_new(db, create_execution_context(block.header), hdr.state_root),
            vm_block.header, block.transactions, hdr))

\* A mutant of VM.import_block: the block number of the imported block is not
\* compared with the VM's.
import_block_any_number(db, initial_header, block) ==
    import_block_configured(db,
        [Block_from_header(db, initial_header) EXCEPT
            !.header.extra_data = block.header.extra_data,
                 !.header.mix_hash = block.header.mix_hash],
        block,
        [initial_header EXCEPT !.extra_data = block.header.extra_data,
                 !.mix_hash = block.header.mix_hash, !.gas_used = 0])

\* VM.import_block, on the VM built for initial_header
VM_import_block(db, initial_header, block) ==
    IF initial_header.block_number # block.header.block_number
    THEN [err |-> "ValidationError", db |-> db, block |-> NoBlock]
    ELSE import_block_configured(db,
             [Block_from_header(db, initial_header) EXCEPT
                 !.header.extra_data = block.header.extra_data,
                 !.header.mix_hash = block.header.mix_hash],
             block,
             [initial_header EXCEPT !.extra_data = block.header.extra_data,
                 !.mix_hash = block.header.mix_hash,
                                    !.gas_used = 0])

(***************************************************************************)
(* Chain and MiningChain (src/xvm/chains/base.py)                          *)
(***************************************************************************)
\* Chain.create_header_from_parent
\* Chain.create_header_from_parent once the VM class is looked up (c): the
\* class makes the header
create_header_with(parent_header, c) ==
    IF c.err # "ok"
    THEN [err |-> c.err, value |-> parent_header, vm_class |-> None]
    ELSE [err |-> "ok", value |-> VM_create_header_from_parent(parent_header),
          vm_class |-> c.value]

\* A mutant of Chain.create_header_from_parent: the VM class is the one of the
\* parent's block number.
create_header_with_parent_class(cfg, parent_header) ==
    create_header_with(parent_header,
        get_vm_class_for_block_number(cfg, parent_header.block_number))

Chain_create_header_from_parent(cfg, parent_header) ==
    create_header_with(parent_header,
        get_vm_class_for_block_number(cfg, parent_header.block_number + 1))

\* Chain.ensure_header(None): the header after the canonical head
Chain_ensure_header(cfg, db) ==
    Chain_create_header_from_parent(cfg, ChainDB_get_canonical_head(db))

\* Chain.get_vm(at_header): the lookup of the header's rule-set; "ok" when the
\* VM can be built
Chain_get_vm(cfg, at_header) ==
    get_vm_class_for_block_number(cfg, at_header.block_number).err

\* Chain.get_block_by_hash
Chain_get_block_by_hash(db, hash) ==
    Block_from_header(db, ChainDB_get_block_header_by_hash(db, hash).value)

\* Chain.validate_block: "ok", or the error raised
Chain_validate_block(cfg, db, block) ==
    IF block.header.block_number = 0                                \* block.is_genesis
    THEN "ValidationError"
    ELSE IF Chain_get_vm(cfg, block.header) # "ok"
    THEN Chain_get_vm(cfg, block.header)
    ELSE IF ~ChainDB_has_header(db, block.header.parent_hash)
    THEN "HeaderNotFound"
    ELSE IF ~VM_validate_header(block.header,
                ChainDB_get_block_header_by_hash(db, block.header.parent_hash).value)
    THEN "ValidationError"
    ELSE "ok"

NoResult ==
    [imported_block |-> NoBlock, new_canonical_blocks |-> <<>>, old_canonical_blocks |-> <<>>]

\* Chain.persist_block after chaindb.persist_block (lines 496-513)
persist_block_result(block, persisted) ==
    IF persisted.err # "ok"
    THEN [err |-> persisted.err, db |-> persisted.db, value |-> NoResult]
    ELSE [err |-> "ok", db |-> persisted.db,
          value |-> [imported_block |-> block,
                     new_canonical_blocks |->
                         [i \in 1..Len(persisted.new) |->
                             Chain_get_block_by_hash(persisted.db, persisted.new[i])],
                     old_canonical_blocks |->
                         [i \in 1..Len(persisted.old) |->
                             Chain_get_block_by_hash(persisted.db, persisted.old[i])]]]

\* Chain.persist_block after the validation (lines 491-513)
persist_block_validated(db, block, valid) ==
    IF valid # "ok"
    THEN [err |-> valid, db |-> db, value |-> NoResult]
    ELSE persist_block_result(block, ChainDB_persist_block(db, block))

\* A mutant of Chain.persist_block: the block is written before it is
\* validated.
persist_block_written_first(cfg, db, block, perform_validation) ==
    IF perform_validation /\ Chain_validate_block(cfg, db, block) # "ok"
    THEN [err |-> Chain_validate_block(cfg, db, block),
          db |-> ChainDB_persist_block(db, block).db, value |-> NoResult]
    ELSE persist_block_result(block, ChainDB_persist_block(db, block))

\* Chain.persist_block
Chain_persist_block(cfg, db, block, perform_validation) ==
    persist_block_validated(db, block,
        IF perform_validation THEN Chain_validate_block(cfg, db, block) ELSE "ok")

\* Chain.import_block after persist_block (line 483)
import_block_return(block_result, persist_result) ==
    IF persist_result.err # "ok"
    THEN [err |-> persist_result.err, stage |-> "persist_block",
          db |-> block_result.db, value |-> NoResult]
    ELSE [err |-> "ok", stage |-> "return",
          db |-> persist_result.db, value |-> persist_result.value]

\* Chain.import_block after the VM's import_block (lines 470-483)
import_block_imported(cfg, block, perform_validation, block_result) ==
    IF block_result.err # "ok"
    THEN [err |-> block_result.err, stage |-> "vm.import_block",
          db |-> block_result.db, value |-> NoResult]
    ELSE IF perform_validation
            /\ ~validate_imported_block_unchanged(block_result.block, block)
    THEN [err |-> "ValidationError", stage |-> "validate_imported_block_unchanged",
          db |-> block_result.db, value |-> NoResult]
    ELSE import_block_return(block_result,
             Chain_persist_block(cfg, block_result.db, block_result.block,
                                 perform_validation))

\* Chain.import_block after create_header_from_parent (lines 465-483)
import_block_on_base(cfg, db, block, perform_validation, base) ==
    IF base.err # "ok"
    THEN [err |-> base.err, stage |-> "create_header_from_parent",
          db |-> db, value |-> NoResult]
    ELSE import_block_imported(cfg, block, perform_validation,
             VM_import_block(db,
                 [base.value EXCEPT !.gas_used = block.header.gas_used],  \* annotated_header
                 block))

\* A mutant of Chain.import_block: the parent is not looked up by the block's
\* parent_hash, and the block is executed on top of the canonical head.
import_block_on_head(cfg, db, block, perform_validation) ==
    import_block_on_base(cfg, db, block, perform_validation,
        Chain_create_header_from_parent(cfg, ChainDB_get_canonical_head(db)))

\* A mutant of Chain.import_block: a block whose parent is known is not executed
\* but written to the end of the canonical index and made the head.
import_block_appends_index(cfg, db, block, perform_validation) ==
    IF ~ChainDB_has_header(db, block.header.parent_hash)
    THEN [err |-> "ValidationError", stage |-> "parent_lookup",
          db |-> db, value |-> NoResult]
    ELSE [err |-> "ok", stage |-> "return",
          db |-> [db EXCEPT !.headers = @ \cup {block.header},
                            !.canonical = Append(@, Hash(block.header)),
                            !.head = Hash(block.header)],
          value |-> [NoResult EXCEPT !.imported_block = block]]

\* Chain.import_block. stage names the statement that raised.
Chain_import_block(cfg, db, block, perform_validation) ==
    IF ~ChainDB_has_header(db, block.header.parent_hash)            \* HeaderNotFound
    THEN [err |-> "ValidationError", stage |-> "parent_lookup",
          db |-> db, value |-> NoResult]
    ELSE import_block_on_base(cfg, db, block, perform_validation,
             Chain_create_header_from_parent(cfg,
                 ChainDB_get_block_header_by_hash(db, block.header.parent_hash).value))

\* A mutant of MiningChain.apply_transaction: the header is charged the gas of
\* the transaction before the transaction is applied, and keeps the charge
\* when the transaction fails.
apply_transaction_charged_first(db, hdr, base_block, tx, applied) ==
    IF applied.err # "ok"
    THEN [err |-> applied.err, db |-> db, header |-> [hdr EXCEPT !.gas_used = @ + tx.gas]]
    ELSE [err |-> "ok",
          db |-> VM_set_block_transactions(
                     State_persist(db, applied.state), base_block,
                     [add_receipt_to_header(base_block.header, applied.receipt) EXCEPT
                         !.state_root = State_state_root(applied.state)],
                     Append(base_block.transactions, tx),
                     Append(Block_get_receipts(db, base_block), applied.receipt)).db,
          header |-> VM_set_block_transactions(
                     State_persist(db, applied.state), base_block,
                     [add_receipt_to_header(base_block.header, applied.receipt) EXCEPT
                         !.state_root = State_state_root(applied.state)],
                     Append(base_block.transactions, tx),
                     Append(Block_get_receipts(db, base_block), applied.receipt)).block.header]

\* MiningChain.apply_transaction after vm.apply_transaction (lines 556-572)
apply_transaction_applied(db, hdr, base_block, tx, applied) ==
    IF applied.err # "ok"
    THEN [err |-> applied.err, db |-> db, header |-> hdr]
    ELSE [err |-> "ok",
          db |-> VM_set_block_transactions(
                     State_persist(db, applied.state), base_block,
                     [add_receipt_to_header(base_block.header, applied.receipt) EXCEPT
                         !.state_root = State_state_root(applied.state)],
                     Append(base_block.transactions, tx),
                     Append(Block_get_receipts(db, base_block), applied.receipt)).db,
          header |-> VM_set_block_transactions(
                     State_persist(db, applied.state), base_block,
                     [add_receipt_to_header(base_block.header, applied.receipt) EXCEPT
                         !.state_root = State_state_root(applied.state)],
                     Append(base_block.transactions, tx),
                     Append(Block_get_receipts(db, base_block), applied.receipt)).block.header]

\* A mutant of MiningChain.apply_transaction: the state is not persisted and
\* the header keeps the state root it had.
apply_transaction_unpersisted(cfg, db, hdr, tx) ==
    IF VM_apply_transaction(build_state(db, hdr), hdr, tx).err # "ok"
    THEN [err |-> VM_apply_transaction(build_state(db, hdr), hdr, tx).err,
          db |-> db, header |-> hdr]
    ELSE [err |-> "ok", db |-> db,
          header |-> VM_set_block_transactions(db, Block_from_header(db, hdr),
                         add_receipt_to_header(hdr,
                             VM_apply_transaction(build_state(db, hdr), hdr, tx).receipt),
                         Append(Block_from_header(db, hdr).transactions, tx),
                         Append(Block_get_receipts(db, Block_from_header(db, hdr)),
                             VM_apply_transaction(build_state(db, hdr), hdr, tx).receipt)
                         ).block.header]

\* A mutant of MiningChain.apply_transaction: the in-progress block is
\* persisted as a block of the chain.
apply_transaction_persisting(cfg, db, hdr, tx) ==
    IF apply_transaction_applied(db, hdr, Block_from_header(db, hdr), tx,
           VM_apply_transaction(build_state(db, hdr), hdr, tx)).err # "ok"
    THEN apply_transaction_applied(db, hdr, Block_from_header(db, hdr), tx,
             VM_apply_transaction(build_state(db, hdr), hdr, tx))
    ELSE [err |-> "ok",
          db |-> ChainDB_persist_block(
                     apply_transaction_applied(db, hdr, Block_from_header(db, hdr), tx,
                         VM_apply_transaction(build_state(db, hdr), hdr, tx)).db,
                     [header |-> apply_transaction_applied(db, hdr,
                                     Block_from_header(db, hdr), tx,
                                     VM_apply_transaction(build_state(db, hdr), hdr, tx)
                                     ).header,
                      transactions |-> Append(Block_from_header(db, hdr).transactions, tx)]
                     ).db,
          header |-> apply_transaction_applied(db, hdr, Block_from_header(db, hdr), tx,
                         VM_apply_transaction(build_state(db, hdr), hdr, tx)).header]

\* MiningChain.apply_transaction on the working header hdr
MiningChain_apply_transaction(cfg, db, hdr, tx) ==
    IF Chain_get_vm(cfg, hdr) # "ok"
    THEN [err |-> Chain_get_vm(cfg, hdr), db |-> db, header |-> hdr]
    ELSE apply_transaction_applied(db, hdr, Block_from_header(db, hdr), tx,
             VM_apply_transaction(build_state(db, hdr), hdr, tx))

\* A mutant of the end of MiningChain.mine_block_extended: the working header
\* is left on the mined block.
mine_block_stays_on_mined(mine_result, persisted, next_header) ==
    IF persisted.err # "ok"
    THEN [err |-> persisted.err, db |-> mine_result.db, block |-> NoBlock]
    ELSE [err |-> "ok", db |-> persisted.db, header |-> mine_result.block.header,
          block |-> mine_result.block]

\* MiningChain.mine_block_extended after chaindb.persist_block (lines 640-641)
mine_block_advance(mine_result, persisted, next_header) ==
    IF persisted.err # "ok"
    THEN [err |-> persisted.err, db |-> mine_result.db, block |-> NoBlock]
    ELSE IF next_header.err # "ok"
    THEN [err |-> next_header.err, db |-> persisted.db, block |-> NoBlock]
    ELSE [err |-> "ok", db |-> persisted.db, header |-> next_header.value,
          block |-> mine_result.block]

\* MiningChain.mine_block_extended after vm.mine_block (lines 635-641)
mine_block_mined(cfg, mine_result) ==
    IF mine_result.err # "ok"
    THEN [err |-> mine_result.err, db |-> mine_result.db, block |-> NoBlock]
    ELSE IF Chain_validate_block(cfg, mine_result.db, mine_result.block) # "ok"
    THEN [err |-> Chain_validate_block(cfg, mine_result.db, mine_result.block),
          db |-> mine_result.db, block |-> NoBlock]
    ELSE mine_block_advance(mine_result,
             ChainDB_persist_block(mine_result.db, mine_result.block),
             Chain_create_header_from_parent(cfg, mine_result.block.header))

\* A mutant of MiningChain.mine_block_extended: the block is persisted and the
\* working header advanced without either validation.
mine_block_extended_unvalidated(cfg, db, hdr, extra) ==
    IF Chain_get_vm(cfg, hdr) # "ok"
    THEN [err |-> Chain_get_vm(cfg, hdr), db |-> db, block |-> NoBlock]
    ELSE mine_block_advance(
             mine_block_unvalidated(db, build_state(db, hdr), Block_from_header(db, hdr), extra),
             ChainDB_persist_block(
                 mine_block_unvalidated(db, build_state(db, hdr),
                                        Block_from_header(db, hdr), extra).db,
                 mine_block_unvalidated(db, build_state(db, hdr),
                                        Block_from_header(db, hdr), extra).block),
             Chain_create_header_from_parent(cfg,
                 mine_block_unvalidated(db, build_state(db, hdr),
                                        Block_from_header(db, hdr), extra).block.header))

\* MiningChain.mine_block_extended on the working header hdr; extra is the
\* extra_data keyword, -1 when it is not given. A result without a header
\* field leaves the working header as it is.
MiningChain_mine_block_extended(cfg, db, hdr, extra) ==
    IF Chain_get_vm(cfg, hdr) # "ok"
    THEN [err |-> Chain_get_vm(cfg, hdr), db |-> db, block |-> NoBlock]
    ELSE mine_block_mined(cfg,
             VM_mine_block(db, build_state(db, hdr), Block_from_header(db, hdr), extra))

(***************************************************************************)
(* One VM inside apply_all_transactions, one loop iteration per step.      *)
(***************************************************************************)
TxSeqs == UNION { [1..n -> Transactions] : n \in 0..MaxTxs }

\* The VM is built for the block after genesis; the caller's base header is that
\* header with some gas already used, or a header of another block number.
VMHeader == VM_create_header_from_parent(GenesisHeader)
BaseHeaders ==
    { [VMHeader EXCEPT !.gas_used = g] : g \in {0, 1} }
        \cup { VM_create_header_from_parent(VMHeader) }

InitVM ==
    /\ vm_configuration = <<[start_block |-> 0, vm_class |-> "VMA"]>>
    /\ chaindb = None
    /\ header = None
    /\ ret = NoCall
    /\ \E txs \in TxSeqs, base \in BaseHeaders, missing \in {{}, {"b"}} :
         vm = [pc |-> "idle", header |-> VMHeader, transactions |-> txs,
               base_header |-> base, index |-> 1, failed |-> {}, starts |-> <<>>,
               acc |-> loop_start(build_state([missing |-> missing], VMHeader), base)]

\* lines 247-258: the block-number check and the loop's locals
ApplyAllEnter ==
    /\ vm.pc = "idle"
    /\ IF vm.base_header.block_number # vm.header.block_number
       THEN /\ vm' = [vm EXCEPT !.pc = "raised"]
            /\ ret' = [op |-> "apply_all_transactions", err |-> "ValidationError"]
       ELSE /\ vm' = [vm EXCEPT !.pc = "loop"]
            /\ UNCHANGED ret
    /\ UNCHANGED <<vm_configuration, chaindb, header>>

\* lines 260-288: one transaction. failed records, from the state's own answer,
\* the positions of the transactions that failed intrinsic validation, and
\* starts the account values each transaction started from.
ApplyAllIterate ==
    /\ vm.pc = "loop"
    /\ vm.index <= Len(vm.transactions)
    /\ LET tx == vm.transactions[vm.index]
           acc == loop_body(vm.acc, tx)
           invalid == State_apply_transaction(vm.acc.state, tx).err = "ValidationError"
       IN  /\ vm' = [vm EXCEPT !.acc = acc,
                               !.index = @ + 1,
                               !.failed = IF invalid THEN @ \cup {vm.index} ELSE @,
                               !.starts = Append(@, vm.acc.state.accounts),
                               !.pc = IF acc.err = "ok" THEN "loop" ELSE "raised"]
           /\ ret' = IF acc.err = "ok" THEN ret
                     ELSE [op |-> "apply_all_transactions", err |-> acc.err]
    /\ UNCHANGED <<vm_configuration, chaindb, header>>

\* lines 290-294: the return
ApplyAllReturn ==
    /\ vm.pc = "loop"
    /\ vm.index > Len(vm.transactions)
    /\ vm' = [vm EXCEPT !.pc = "returned"]
    /\ ret' = [op |-> "apply_all_transactions", err |-> "ok", value |-> loop_return(vm.acc)]
    /\ UNCHANGED <<vm_configuration, chaindb, header>>

NextVM == ApplyAllEnter \/ ApplyAllIterate \/ ApplyAllReturn

SpecVM == InitVM /\ [][NextVM]_vars

(***************************************************************************)
(* A MiningChain over a database initialised from genesis.                 *)
(***************************************************************************)
MaxHeight == 1          \* blocks are mined up to this block number

\* The transactions handed to the chain: the first transaction of each account.
\* An account's nonce only grows, so each of them is applied at most once.
ChainTransactions == [sender : Accounts, nonce : {0}, gas : {1}]
ChainTxSeqs == {<<>>} \cup { <<tx>> : tx \in ChainTransactions }

\* A header no database holds: the parent of a block that comes out of nowhere
UnknownHeader == [GenesisHeader EXCEPT !.extra_data = extra_data_max_bytes + 1]

\* The block an executor that follows the rules makes of transactions txs on top
\* of parent: the header after parent with the gas of the applied transactions,
\* the roots of the transactions and of their receipts, and the resulting state
\* root.
well_formed_from(base, txs, applied) ==
    IF applied.err # "ok"
    THEN [header |-> [base EXCEPT !.transaction_root = make_trie_root(txs)],
          transactions |-> txs]
    ELSE [header |-> [applied.value[1] EXCEPT
                         !.transaction_root = make_trie_root(txs),
                         !.receipt_root = make_trie_root(applied.value[3]),
                         !.state_root = State_state_root(applied.state)],
          transactions |-> txs]

well_formed_on(db, base, txs) ==
    well_formed_from(base, txs,
        apply_all_transactions(build_state(db, base), base, txs, base))

well_formed_block(db, parent, txs) ==
    well_formed_on(db, VM_create_header_from_parent(parent), txs)

\* The blocks a caller hands to import_block: well formed, or wrong in one field.
declared(block, flaw) ==
    CASE flaw = "block_number" -> [block EXCEPT !.header.block_number = @ + 1]
      [] flaw = "gas_used" -> [block EXCEPT !.header.gas_used = @ + 1]
      [] flaw = "state_root" ->
            [block EXCEPT !.header.state_root = [i \in DOMAIN @ |-> @[i] + 1]]
      [] flaw = "receipt_root" ->
            [block EXCEPT !.header.receipt_root = make_trie_root(<<NoReceipt>>)]
      [] OTHER -> block

Flaws == {"none", "block_number", "gas_used", "state_root", "receipt_root"}

ImportedBlocks(db) ==
    { declared(well_formed_block(db, parent, txs), flaw) :
        parent \in db.headers \cup {UnknownHeader}, txs \in ChainTxSeqs, flaw \in Flaws }

ChainConfiguration ==
    <<[start_block |-> 0, vm_class |-> "VMA"], [start_block |-> 1, vm_class |-> "VMB"]>>

\* Chain.from_genesis and MiningChain.__init__(base_db): the genesis state and
\* header are persisted, and the working header extends the genesis header.
GenesisDB(missing) ==
    [headers |-> {GenesisHeader},
     canonical |-> <<Hash(GenesisHeader)>>,
     head |-> Hash(GenesisHeader),
     state_roots |-> {make_state_root(GenesisAccounts)},
     tries |-> {BLANK_ROOT_HASH},
     tx_index |-> {},
     missing |-> missing]

Init ==
    /\ vm_configuration = ChainConfiguration
    /\ \E missing \in {{}, {"b"}} : chaindb = GenesisDB(missing)
    /\ header = Chain_ensure_header(vm_configuration, chaindb).value
    /\ vm = None
    /\ ret = NoCall

\* MiningChain.import_block
ImportBlock(block, perform_validation) ==
    LET result == Chain_import_block(vm_configuration, chaindb, block, perform_validation)
    IN  /\ chaindb' = result.db
        /\ header' = IF result.err = "ok"
                     THEN Chain_ensure_header(vm_configuration, result.db).value
                     ELSE header
        /\ ret' = [op |-> "import_block", block |-> block,
                   perform_validation |-> perform_validation,
                   err |-> result.err, stage |-> result.stage, value |-> result.value]
        /\ UNCHANGED <<vm_configuration, vm>>

\* MiningChain.apply_transaction
ApplyTransaction(tx) ==
    /\ LET result == MiningChain_apply_transaction(vm_configuration, chaindb, header, tx)
       IN  /\ chaindb' = result.db
           /\ header' = result.header
           /\ ret' = [op |-> "apply_transaction", transaction |-> tx, err |-> result.err]
    /\ UNCHANGED <<vm_configuration, vm>>

\* MiningChain.mine_block(**kwargs)
MineBlock(extra) ==
    /\ header.block_number <= MaxHeight
    /\ LET result == MiningChain_mine_block_extended(vm_configuration, chaindb, header, extra)
       IN  /\ chaindb' = result.db
           /\ header' = IF result.err = "ok" THEN result.header ELSE header
           /\ ret' = [op |-> "mine_block", extra_data |-> extra,
                      err |-> result.err, block |-> result.block]
    /\ UNCHANGED <<vm_configuration, vm>>

\* Chain.create_header_from_parent(parent_header), called on the chain
CreateHeaderFromParent(parent) ==
    /\ ret' = [op |-> "create_header_from_parent", parent |-> parent]
              @@ Chain_create_header_from_parent(vm_configuration, parent)
    /\ UNCHANGED <<vm_configuration, chaindb, header, vm>>

Next ==
    \/ \E block \in ImportedBlocks(chaindb), pv \in BOOLEAN : ImportBlock(block, pv)
    \/ \E parent \in chaindb.headers : CreateHeaderFromParent(parent)
    \/ \E tx \in ChainTransactions : ApplyTransaction(tx)
    \/ \E extra \in {-1, extra_data_max_bytes + 1} : MineBlock(extra)

Spec == Init /\ [][Next]_vars

(***************************************************************************)
(* Rule-set selection (checked under SpecRuleSet)                          *)
(***************************************************************************)
\* The positions of cfg whose starting block is at most n
starts_at_or_before(cfg, n) == { i \in 1..Len(cfg) : cfg[i].start_block <= n }

\* C1: for a configuration sorted ascending by starting block and a block number
\* n at or after the first starting block, get_vm_class_for_block_number(n)
\* returns the VM class of the entry whose starting block is the greatest one
\* that is at most n.
GreatestStartSelected ==
    (/\ ret.op = "get_vm_class_for_block_number"
     /\ IsSortedConfig(vm_configuration)
     /\ ret.block_number >= vm_configuration[1].start_block)
    => /\ ret.err = "ok"
       /\ \E i \in starts_at_or_before(vm_configuration, ret.block_number) :
            /\ \A j \in starts_at_or_before(vm_configuration, ret.block_number) :
                 vm_configuration[j].start_block <= vm_configuration[i].start_block
            /\ ret.value = vm_configuration[i].vm_class

\* A lookup that falls between the second and the third of three entries and
\* answers with the second entry's class, which is not the first entry's.
GreatestStartSelectedWitness ==
    /\ ret.op = "get_vm_class_for_block_number"
    /\ Len(vm_configuration) = 3
    /\ vm_configuration[2].start_block <= ret.block_number
    /\ ret.block_number < vm_configuration[3].start_block
    /\ vm_configuration[1].vm_class # vm_configuration[2].vm_class
    /\ ret.err = "ok"
    /\ ret.value = vm_configuration[2].vm_class

\* C2: when n precedes the starting block of the first configuration entry,
\* get_vm_class_for_block_number(n) raises VMNotFound (the code's name for
\* "no rule-set available") and returns no VM class.
VMNotFoundBeforeFirstEntry ==
    (/\ ret.op = "get_vm_class_for_block_number"
     /\ ret.block_number < vm_configuration[1].start_block)
    => /\ ret.err = "VMNotFound"
       /\ ret.value = None

\* A lookup below the first starting block of a configuration of several
\* entries, answered with VMNotFound.
VMNotFoundBeforeFirstEntryWitness ==
    /\ ret.op = "get_vm_class_for_block_number"
    /\ Len(vm_configuration) >= 2
    /\ ret.block_number < vm_configuration[1].start_block
    /\ ret.err = "VMNotFound"

(***************************************************************************)
(* VM.apply_all_transactions (checked under SpecVM)                        *)
(***************************************************************************)
\* seq from position i on, without the positions in drop
RECURSIVE without_positions(_, _, _)
without_positions(seq, drop, i) ==
    IF i > Len(seq)
    THEN <<>>
    ELSE (IF i \in drop THEN <<>> ELSE <<seq[i]>>) \o without_positions(seq, drop, i + 1)

\* The gas the executions of txs use, all together
RECURSIVE sum_gas(_)
sum_gas(txs) == IF txs = <<>> THEN 0 ELSE Head(txs).gas + sum_gas(Tail(txs))

\* hdr with receipts folded in, first to last
RECURSIVE fold_receipts(_, _)
fold_receipts(hdr, receipts) ==
    IF receipts = <<>>
    THEN hdr
    ELSE fold_receipts(add_receipt_to_header(hdr, Head(receipts)), Tail(receipts))

\* C9: apply_all_transactions skips every transaction that fails intrinsic
\* validation and goes on: such a transaction never makes the call raise, the
\* applied transactions returned are the input transactions that did not fail,
\* in input order, and the receipts and the computations returned are as many
\* as the applied transactions and in their order (receipt and computation i
\* are those of applied transaction i).
InvalidTransactionsSkipped ==
    /\ (vm.pc = "raised" /\ vm.base_header.block_number = vm.header.block_number)
       => /\ ret.err = "EVMMissingData"
          /\ (vm.index - 1) \notin vm.failed
    /\ (vm.pc = "returned")
       => /\ ret.value[2] = without_positions(vm.transactions, vm.failed, 1)
          /\ Len(ret.value[3]) = Len(ret.value[2])
          /\ Len(ret.value[4]) = Len(ret.value[2])
          /\ \A i \in 1..Len(ret.value[2]) :
               /\ ret.value[4][i].logs = <<ret.value[2][i].sender, ret.value[2][i].nonce>>
               /\ ret.value[4][i].gas_used = ret.value[2][i].gas
               /\ ret.value[3][i].logs = ret.value[4][i].logs

\* Three transactions of which only the second fails validation: the call
\* returns the first and the third, with two receipts and two computations.
InvalidTransactionsSkippedWitness ==
    /\ vm.pc = "returned"
    /\ Len(vm.transactions) = 3
    /\ vm.failed = {2}
    /\ ret.value[2] = <<vm.transactions[1], vm.transactions[3]>>
    /\ Len(ret.value[3]) = 2
    /\ Len(ret.value[4]) = 2

\* C10: the header apply_all_transactions returns is the base header with the
\* receipts of the applied transactions folded in, in application order: its
\* gas_used is the base header's plus the gas of the applied transactions and of
\* no other, every other field is the base header's, and with no transaction
\* applied it is the base header itself.
HeaderFoldsAppliedReceipts ==
    (vm.pc = "returned")
    => /\ ret.value[1] = fold_receipts(vm.base_header, ret.value[3])
       /\ ret.value[1] = [vm.base_header EXCEPT
              !.gas_used = @ + sum_gas(without_positions(vm.transactions, vm.failed, 1))]
       /\ (ret.value[2] = <<>> => ret.value[1] = vm.base_header)

\* A base header that already carries gas, a skipped transaction between two
\* applied ones, and a returned header that carries the gas of the two.
HeaderFoldsAppliedReceiptsWitness ==
    /\ vm.pc = "returned"
    /\ vm.base_header.gas_used = 1
    /\ Len(vm.transactions) = 3
    /\ vm.failed = {2}
    /\ Len(ret.value[2]) = 2
    /\ ret.value[1].gas_used = 1 + vm.transactions[1].gas + vm.transactions[3].gas

(***************************************************************************)
(* Chain.import_block (checked under Spec)                                 *)
(***************************************************************************)
\* Whether the store db holds the header block names as its parent
parent_known(db, block) == ChainDB_has_header(db, block.header.parent_hash)

\* The header block names as its parent, for a block whose parent is known
parent_of(db, block) == ChainDB_get_block_header_by_hash(db, block.header.parent_hash).value

\* Whether executing block's transactions on top of its parent runs to the end
executes(db, block) ==
    apply_all_transactions(
        build_state(db, VM_create_header_from_parent(parent_of(db, block))),
        VM_create_header_from_parent(parent_of(db, block)),
        block.transactions,
        VM_create_header_from_parent(parent_of(db, block))).err = "ok"

\* The block that executing block's transactions on top of its parent yields
recomputed(db, block) == well_formed_block(db, parent_of(db, block), block.transactions)

\* Whether two blocks differ in a header field that execution determines
differs_in_execution(block, other) ==
    \/ block.header.state_root # other.header.state_root
    \/ block.header.gas_used # other.header.gas_used
    \/ block.header.receipt_root # other.header.receipt_root

\* Whether a sequence holds some value twice
has_duplicate(seq) == \E i, j \in 1..Len(seq) : i # j /\ seq[i] = seq[j]

\* C3 (as the code has it): import_block of a block whose declared parent hash
\* is not a known header raises ValidationError at the parent lookup, before the
\* VM is built or any transaction executed, and the store (canonical head,
\* canonical index, headers, state) and the working header are unchanged.
UnknownParentRejected ==
    [][(ret'.op = "import_block" /\ ~parent_known(chaindb, ret'.block))
        => /\ ret'.err = "ValidationError"
           /\ ret'.stage = "parent_lookup"
           /\ chaindb' = chaindb
           /\ header' = header]_vars

\* An import of a block with transactions and an unknown parent, refused at the
\* parent lookup, on a chain that has grown past genesis.
UnknownParentRejectedWitness ==
    /\ ret.op = "import_block"
    /\ ~parent_known(chaindb, ret.block)
    /\ ret.block.transactions # <<>>
    /\ ret.err = "ValidationError"
    /\ ret.stage = "parent_lookup"
    /\ Len(chaindb.canonical) >= 2

\* C3 (as the claim has it): import_block of a block whose declared parent hash
\* is not a known header fails with ParentNotFound, and the store and the
\* working header are unchanged.
UnknownParentRaisesParentNotFound ==
    [][(ret'.op = "import_block" /\ ~parent_known(chaindb, ret'.block))
        => /\ ret'.err = "ParentNotFound"
           /\ chaindb' = chaindb
           /\ header' = header]_vars

\* C4: when import_block runs with validation on and the block recomputed on
\* the block's parent differs from the supplied block in state root, gas used
\* or receipt root, the import fails with a validation error and the store is
\* as before the call (block not persisted, canonical head and index the same).
MismatchFailsValidation ==
    [][(/\ ret'.op = "import_block"
        /\ ret'.perform_validation
        /\ parent_known(chaindb, ret'.block)
        /\ executes(chaindb, ret'.block)
        /\ differs_in_execution(ret'.block, recomputed(chaindb, ret'.block)))
        => /\ ret'.err = "ValidationError"
           /\ chaindb' = chaindb]_vars

\* C5: importing a block whose declared gas_used is not the gas computed from
\* zero over the receipts of its applied transactions is a validation failure:
\* the block is rejected by the comparison of the recomputed block with the
\* declared one.
GasMismatchIsValidationFailure ==
    (/\ ret.op = "import_block"
     /\ ret.perform_validation
     /\ parent_known(chaindb, ret.block)
     /\ executes(chaindb, ret.block)
     /\ ret.block.header.gas_used # recomputed(chaindb, ret.block).header.gas_used)
    => /\ ret.err = "ValidationError"
       /\ ret.stage = "validate_imported_block_unchanged"

\* The stored header with hash h
header_of(db, h) == ChainDB_get_block_header_by_hash(db, h).value

\* C6: import_block executes a block only on top of the stored header whose
\* hash is the block's parent_hash: a block whose parent_hash is the hash of no
\* stored header is rejected at the lookup, and a block that is not numbered one
\* above the header with that hash is rejected by the VM; and every canonical
\* block above genesis, at height n, has as parent_hash the hash of the stored
\* header that is canonical at height n-1.
ParentLinkage ==
    /\ ret.op = "import_block"
       => /\ ~parent_known(chaindb, ret.block)
             => (ret.err = "ValidationError" /\ ret.stage = "parent_lookup")
          /\ (/\ parent_known(chaindb, ret.block)
              /\ ret.block.header.block_number # parent_of(chaindb, ret.block).block_number + 1)
             => (ret.err = "ValidationError" /\ ret.stage = "vm.import_block")
    /\ \A i \in 2..Len(chaindb.canonical) :
         /\ ChainDB_has_header(chaindb, chaindb.canonical[i])
         /\ ChainDB_has_header(chaindb, chaindb.canonical[i - 1])
         /\ header_of(chaindb, chaindb.canonical[i]).block_number = i - 1
         /\ header_of(chaindb, chaindb.canonical[i - 1]).block_number = i - 2
         /\ header_of(chaindb, chaindb.canonical[i]).parent_hash = chaindb.canonical[i - 1]

\* A chain with a canonical block above genesis, and an import of a block that
\* names a stored header as its parent but is numbered two above it, refused by
\* the VM.
ParentLinkageWitness ==
    /\ Len(chaindb.canonical) >= 2
    /\ ret.op = "import_block"
    /\ parent_known(chaindb, ret.block)
    /\ ret.block.header.block_number = parent_of(chaindb, ret.block).block_number + 2
    /\ ret.err = "ValidationError"
    /\ ret.stage = "vm.import_block"

\* C7: import_block of a block whose parent is known and whose declared header
\* fields are the recomputed ones succeeds, the block is persisted, and the
\* result carries the imported block with the newly canonical and the displaced
\* blocks.
WellFormedImportPersists ==
    (/\ ret.op = "import_block"
     /\ parent_known(chaindb, ret.block)
     /\ executes(chaindb, ret.block)
     /\ ret.block = recomputed(chaindb, ret.block))
    => /\ ret.err = "ok"
       /\ ret.value.imported_block = ret.block
       /\ ret.block.header \in chaindb.headers
       /\ \A i \in 1..Len(ret.value.new_canonical_blocks) :
            \E j \in 1..Len(chaindb.canonical) :
              chaindb.canonical[j] = Hash(ret.value.new_canonical_blocks[i].header)

RECURSIVE sum_nonces(_, _)
sum_nonces(accounts, i) ==
    IF i > Len(AccountOrder) THEN 0
    ELSE accounts[AccountOrder[i]] + sum_nonces(accounts, i + 1)

\* C11: when a transaction fails because state data is missing, the account
\* state is the one of the snapshot taken just before that transaction and that
\* snapshot is closed, EVMMissingData reaches the caller, nothing is added to the
\* receipts, computations or applied transactions, no header or tuple is
\* returned, and the VM takes no further step on the remaining transactions.
MissingDataAborts ==
    [][/\ vm.pc # "raised"
       /\ (vm'.pc = "raised" /\ ret'.err = "EVMMissingData")
          => /\ vm'.acc.state.accounts = vm.acc.state.accounts
             /\ vm'.acc.state.snapshots = vm.acc.state.snapshots
             /\ vm'.acc.receipts = vm.acc.receipts
             /\ vm'.acc.computations = vm.acc.computations
             /\ vm'.acc.applied_transactions = vm.acc.applied_transactions
             /\ vm'.acc.result_header = vm.acc.result_header
             /\ "value" \notin DOMAIN ret']_vars

\* A call that raised EVMMissingData on its second transaction after applying
\* the first, with a third transaction left: the state holds the first
\* transaction's change and no other.
MissingDataAbortsWitness ==
    /\ vm.pc = "raised"
    /\ ret.err = "EVMMissingData"
    /\ Len(vm.transactions) = 3
    /\ vm.index = 3
    /\ Len(vm.acc.receipts) = 1
    /\ sum_nonces(vm.acc.state.accounts, 1) = 1

SnapshotsResolvedAtExit ==
    (vm.pc \in {"returned", "raised"}) => vm.acc.state.snapshots = <<>>

\* C14: the transactions are taken one at a time in the order given; the first
\* starts from the state of the VM's header, every later one from the state its
\* predecessor left (the predecessor's starting state when that was skipped,
\* that state with the sender's nonce consumed when it was applied), and no
\* transaction that was executed shares its starting state with a later one.
AppliedInSequence ==
    /\ Len(vm.starts) = vm.index - 1
    /\ Len(vm.starts) >= 1 => vm.starts[1] = accounts_at(vm.header.state_root)
    /\ \A k \in 2..Len(vm.starts) :
         vm.starts[k] = IF (k - 1) \in vm.failed
                        THEN vm.starts[k - 1]
                        ELSE [vm.starts[k - 1] EXCEPT
                                 ![vm.transactions[k - 1].sender] = @ + 1]
    /\ \A i, j \in 1..Len(vm.starts) :
         (i < j /\ i \notin vm.failed) => vm.starts[i] # vm.starts[j]

\* Three transactions, all applied, of two senders: three different starting
\* states.
AppliedInSequenceWitness ==
    /\ vm.pc = "returned"
    /\ Len(vm.starts) = 3
    /\ vm.failed = {}
    /\ vm.transactions[1].sender # vm.transactions[2].sender
    /\ vm.starts[3] # vm.starts[1]
    /\ vm.starts[3] # vm.starts[2]

\* C16: no step of the VM takes back the state change of a transaction whose
\* apply_transaction has returned: every step leaves each account's nonce at
\* least where the last returned transaction left it, and never below the
\* values held un-revertable by the last lock_changes.
AppliedChangesStay ==
    [][\A x \in Accounts :
         /\ vm'.acc.state.accounts[x] >= vm.acc.state.accounts[x]
         /\ vm'.acc.state.accounts[x] >= vm'.acc.state.locked[x]]_vars

\* A call that raised EVMMissingData after two applied transactions: the revert
\* went back to the locked values, which hold the two transactions' changes.
AppliedChangesStayWitness ==
    /\ vm.pc = "raised"
    /\ ret.err = "EVMMissingData"
    /\ Len(vm.acc.receipts) = 2
    /\ vm.acc.state.accounts = vm.acc.state.locked
    /\ sum_nonces(vm.acc.state.accounts, 1) = 2

(***************************************************************************)
(* Header creation and incremental application (checked under Spec)        *)
(***************************************************************************)
\* C19: create_header_from_parent returns the header skeleton of block
\* parent.block_number + 1 on top of the parent, made by the VM class whose
\* starting block is the greatest one at or below that number, and leaves the
\* chain database (state, headers, canonical head and index) and the working
\* header as they were.
CreateHeaderIsPure ==
    [][ret'.op = "create_header_from_parent"
        => /\ ret'.err = "ok"
           /\ ret'.value.block_number = ret'.parent.block_number + 1
           /\ ret'.value.parent_hash = Hash(ret'.parent)
           /\ \E i \in starts_at_or_before(vm_configuration, ret'.parent.block_number + 1) :
                /\ \A j \in starts_at_or_before(vm_configuration,
                                                ret'.parent.block_number + 1) :
                     vm_configuration[j].start_block <= vm_configuration[i].start_block
                /\ ret'.vm_class = vm_configuration[i].vm_class
           /\ chaindb' = chaindb
           /\ header' = header]_vars

\* A header made on top of genesis, by the class of block 1 and not by the class
\* of block 0, on a chain with a transaction pending in the working header.
CreateHeaderIsPureWitness ==
    /\ ret.op = "create_header_from_parent"
    /\ ret.parent = GenesisHeader
    /\ ret.value.block_number = 1
    /\ ret.vm_class = "VMB"
    /\ header.gas_used > 0

\* C20: a successful MiningChain.apply_transaction leaves the working header at
\* the same block number and parent, with the persisted state root of the state
\* after the transaction, its gas_used raised by the transaction's gas, and the
\* in-progress block's transactions and receipts being the earlier ones followed
\* by the new one; the canonical head and index are unchanged.
ApplyTransactionAdvancesHeader ==
    [][(ret'.op = "apply_transaction" /\ ret'.err = "ok")
        => /\ header'.block_number = header.block_number
           /\ header'.parent_hash = header.parent_hash
           /\ header'.state_root \in chaindb'.state_roots
           /\ header'.state_root =
                make_state_root([accounts_at(header.state_root) EXCEPT
                                    ![ret'.transaction.sender] = @ + 1])
           /\ header'.gas_used = header.gas_used + ret'.transaction.gas
           /\ trie_items(header'.transaction_root)
                = Append(trie_items(header.transaction_root), ret'.transaction)
           /\ Len(trie_items(header'.receipt_root))
                = Len(trie_items(header.receipt_root)) + 1
           /\ SubSeq(trie_items(header'.receipt_root), 1,
                     Len(trie_items(header.receipt_root)))
                = trie_items(header.receipt_root)
           /\ trie_items(header'.receipt_root)[Len(trie_items(header'.receipt_root))].gas_used
                = header'.gas_used
           /\ chaindb'.head = chaindb.head
           /\ chaindb'.canonical = chaindb.canonical]_vars

\* The second transaction applied to one in-progress block: two transactions and
\* two receipts in the working header, whose state root is persisted.
ApplyTransactionAdvancesHeaderWitness ==
    /\ ret.op = "apply_transaction"
    /\ ret.err = "ok"
    /\ Len(trie_items(header.transaction_root)) = 2
    /\ Len(trie_items(header.receipt_root)) = 2
    /\ header.gas_used = 2
    /\ header.state_root \in chaindb.state_roots
    /\ header.state_root # GenesisHeader.state_root

(***************************************************************************)
(* One VM instance used for several calls: apply_transaction, import_block *)
(* and mine_block on the same object. The instance holds its block (whose  *)
(* header get_header returns) and its state object, which the state        *)
(* property builds from the header on first use and keeps from then on.    *)
(***************************************************************************)
MaxImportTxs == 2       \* longest transaction sequence of a block imported by the VM

InstanceTransactions == [sender : Accounts, nonce : {0}, gas : {1}]
InstanceTxSeqs == UNION { [1..n -> InstanceTransactions] : n \in 0..MaxImportTxs }

\* The blocks handed to the VM's import_block: of the VM's block number or of
\* the next one
InstanceBlocks ==
    { [header |-> [VMHeader EXCEPT !.block_number = n], transactions |-> txs] :
        n \in {VMHeader.block_number, VMHeader.block_number + 1}, txs \in InstanceTxSeqs }

\* VM.__init__, with get_block and the state property already resolved
VMInstance(db, hdr) ==
    [block |-> Block_from_header(db, hdr), state |-> build_state(db, hdr)]

\* VM.apply_transaction on the instance, given the outcome r on its state
instance_applied(inst, r) == [err |-> r.err, inst |-> [inst EXCEPT !.state = r.state]]

instance_apply_transaction(inst, tx) ==
    instance_applied(inst, VM_apply_transaction(inst.state, inst.block.header, tx))

\* VM.import_block on the instance after apply_all_transactions (lines 338-344):
\* the instance keeps the state object the transactions ran on
instance_import_result(inst, applied, result) ==
    [err |-> result.err, db |-> result.db, block |-> result.block,
     inst |-> [inst EXCEPT !.state = applied.state]]

instance_import_applied(inst, db, block, applied) ==
    instance_import_result(inst, applied,
        import_block_applied(db, inst.block, block, applied))

\* VM.import_block on the instance once self._block carries the imported
\* header's parameters (lines 322-344): self._state is rebuilt from the
\* execution context of the imported header and the state root of the VM's
\* header with gas_used zeroed
instance_import_configured(inst, db, block) ==
    instance_import_applied(inst, db, block,
        apply_all_transactions(
            State_new(db, create_execution_context(block.header),
                      inst.block.header.state_root),
            inst.block.header, block.transactions,
            [inst.block.header EXCEPT !.gas_used = 0]))

\* A mutant of the import on an instance: the transactions run on the state
\* object the instance already holds.
instance_import_keeping_state(inst, db, block) ==
    IF inst.block.header.block_number # block.header.block_number
    THEN [err |-> "ValidationError", db |-> db, block |-> NoBlock, inst |-> inst]
    ELSE instance_import_applied(
             [inst EXCEPT !.block.header.extra_data = block.header.extra_data,
                 !.block.header.mix_hash = block.header.mix_hash],
             db, block,
             apply_all_transactions(inst.state, inst.block.header, block.transactions,
                 [inst.block.header EXCEPT !.extra_data = block.header.extra_data,
                 !.mix_hash = block.header.mix_hash,
                                           !.gas_used = 0]))

\* VM.import_block on the instance
instance_import_block(inst, db, block) ==
    IF inst.block.header.block_number # block.header.block_number
    THEN [err |-> "ValidationError", db |-> db, block |-> NoBlock, inst |-> inst]
    ELSE instance_import_configured(
             [inst EXCEPT !.block.header.extra_data = block.header.extra_data,
                 !.block.header.mix_hash = block.header.mix_hash],
             db, block)

\* VM.mine_block on the instance: the state object is the one finalize_block
\* leaves
instance_mine_result(inst, final, result) ==
    [err |-> result.err, db |-> result.db, block |-> result.block,
     inst |-> [inst EXCEPT !.state = final.state]]

instance_mine_block(inst, db, extra) ==
    instance_mine_result(inst,
        VM_finalize_block(db, inst.state, VM_pack_block(inst.block, extra)),
        VM_mine_block(db, inst.state, inst.block, extra))

InitInstance ==
    /\ vm_configuration = <<[start_block |-> 0, vm_class |-> "VMA"]>>
    /\ \E missing \in {{}, {"b"}} : chaindb = GenesisDB(missing)
    /\ header = None
    /\ vm = VMInstance(chaindb, VMHeader)
    /\ ret = NoCall

\* Whether the instance's state object holds changes its header's root lacks
has_pending_changes(inst) == inst.state.accounts # accounts_at(inst.block.header.state_root)

\* vm.apply_transaction(vm.get_header(), tx)
InstanceApplyTransaction(tx) ==
    /\ vm' = instance_apply_transaction(vm, tx).inst
    /\ ret' = [op |-> "apply_transaction", transaction |-> tx,
               err |-> instance_apply_transaction(vm, tx).err]
    /\ UNCHANGED <<vm_configuration, chaindb, header>>

\* vm.import_block(block); pending records whether the instance's state object
\* held changes when the call was made
InstanceImportBlock(block) ==
    /\ vm' = instance_import_block(vm, chaindb, block).inst
    /\ chaindb' = instance_import_block(vm, chaindb, block).db
    /\ ret' = [op |-> "import_block", block |-> block,
               pending |-> has_pending_changes(vm),
               err |-> instance_import_block(vm, chaindb, block).err,
               result |-> instance_import_block(vm, chaindb, block).block]
    /\ UNCHANGED <<vm_configuration, header>>

\* vm.mine_block(vm.get_block(), extra_data=extra); extra is -1 without keyword
InstanceMineBlock(extra) ==
    /\ vm' = instance_mine_block(vm, chaindb, extra).inst
    /\ chaindb' = instance_mine_block(vm, chaindb, extra).db
    /\ ret' = [op |-> "mine_block", extra_data |-> extra,
               err |-> instance_mine_block(vm, chaindb, extra).err,
               block |-> instance_mine_block(vm, chaindb, extra).block]
    /\ UNCHANGED <<vm_configuration, header>>

NextInstance ==
    \/ \E tx \in InstanceTransactions : InstanceApplyTransaction(tx)
    \/ \E block \in InstanceBlocks : InstanceImportBlock(block)
    \/ \E extra \in {-1, extra_data_max_bytes + 1} : InstanceMineBlock(extra)

SpecInstance == InitInstance /\ [][NextInstance]_vars

\* The accounts a run of the transactions from position i leaves, computed
\* apart from the loop: a transaction whose nonce is not its sender's is passed
\* over, one whose sender's data is missing ends the run, any other raises its
\* sender's nonce.
RECURSIVE accounts_after(_, _, _, _)
accounts_after(accounts, transactions, i, missing) ==
    IF i > Len(transactions) THEN accounts
    ELSE IF transactions[i].nonce # accounts[transactions[i].sender]
    THEN accounts_after(accounts, transactions, i + 1, missing)
    ELSE IF transactions[i].sender \in missing THEN accounts
    ELSE accounts_after(
             [accounts EXCEPT ![transactions[i].sender] = @ + 1],
             transactions, i + 1, missing)

\* Whether the import just made got past the block number check
import_executed == ret.op = "import_block" /\ ret.err # "ValidationError"

MinedBlockPersistedAndValid ==
    ret.op = "mine_block"
      => IF ret.err = "ok"
         THEN /\ ret.block # NoBlock
              /\ ret.block.header.state_root = State_state_root(vm.state)
              /\ ret.block.header.state_root \in chaindb.state_roots
              /\ ret.block.header.extra_data <= extra_data_max_bytes
              /\ VM_validate_block(chaindb, ret.block)
         ELSE ret.err = "ValidationError" /\ ret.block = NoBlock

\* C18 witness: a block mined over pending changes, its root no longer the
\* one of the VM's header.
MinedBlockPersistedAndValidWitness ==
    /\ ret.op = "mine_block"
    /\ ret.err = "ok"
    /\ ret.block.header.state_root # VMHeader.state_root
    /\ ret.block.header.state_root \in chaindb.state_roots

\* C15: an import_block call of a VM that gets past the number check and meets
\* no missing data returns a block, whose state root is the one the block's
\* transactions give from the VM header's state root, whatever was done on the
\* VM before.
ImportIsDeterministic ==
    (import_executed /\ ret.err # "EVMMissingData")
      => /\ ret.err = "ok"
         /\ ret.result # NoBlock
         /\ ret.result.header.state_root =
              make_state_root(accounts_after(accounts_at(vm.block.header.state_root),
                                             ret.block.transactions, 1, chaindb.missing))

\* C21: a successful MiningChain.mine_block returns the block of the working
\* header with the transactions accumulated in it, valid under the block and
\* header rules, persists it and leaves a working header that extends it; a
\* failed one persists no block and leaves the working header as it was.
MineBlockValidatesThenAdvances ==
    [][ret'.op = "mine_block"
         => IF ret'.err = "ok"
            THEN /\ ret'.block.transactions = Block_from_header(chaindb, header).transactions
                 /\ ret'.block.header.block_number = header.block_number
                 /\ ret'.block.header.parent_hash = header.parent_hash
                 /\ VM_validate_block(chaindb', ret'.block)
                 /\ Chain_validate_block(vm_configuration, chaindb, ret'.block) = "ok"
                 /\ ret'.block.header \in chaindb'.headers
                 /\ chaindb'.head = Hash(ret'.block.header)
                 /\ header' = VM_create_header_from_parent(ret'.block.header)
            ELSE /\ header' = header
                 /\ chaindb'.headers = chaindb.headers
                 /\ chaindb'.canonical = chaindb.canonical
                 /\ chaindb'.head = chaindb.head]_vars

\* C21 witness: a mined block with an accumulated transaction, the working
\* header now its child.
MineBlockValidatesThenAdvancesWitness ==
    /\ ret.op = "mine_block"
    /\ ret.err = "ok"
    /\ ret.block.transactions # <<>>
    /\ header.parent_hash = Hash(ret.block.header)
    /\ header.block_number = ret.block.header.block_number + 1

(***************************************************************************)
(* The chain's validation, block building and read-only execution calls.   *)
(***************************************************************************)
MaxDescendants == 2     \* longest header sequence handed to validate_chain
MaxSampleRate == 3      \* largest seal_check_random_sample_rate tried
BlockGasLimit == 3      \* the gas limit of the execution context

\* VM.validate_seal: the rule-set's seal check of a header
VM_validate_seal(hdr) == hdr.mix_hash = 0

\* validate_chain lines 145-152: the index sets random.sample may return for
\* len descendants; indices count from 0
seal_sample_size(len, rate) == len \div rate

\* A mutant of the seal sampling: the sample size is rounded up.
seal_indices_rounded_up(len, rate) ==
    IF rate = 1 THEN {0..(len - 1)}
    ELSE IF rate = 0 THEN {{}}
    ELSE { S \in SUBSET (0..(len - 1)) : Cardinality(S) = (len + rate - 1) \div rate }

indices_to_check_seal(len, rate) ==
    IF rate = 1 THEN {0..(len - 1)}
    ELSE IF rate = 0 THEN {{}}
    ELSE { S \in SUBSET (0..(len - 1)) : Cardinality(S) = seal_sample_size(len, rate) }

\* A mutant of the loop of validate_chain: the header rules of the rule-set
\* are not applied.
RECURSIVE validate_chain_linkage_only(_, _, _, _, _)
validate_chain_linkage_only(cfg, headers, indices, index, sealed) ==
    IF index + 2 > Len(headers)
    THEN [err |-> "ok", examined |-> index, sealed |-> sealed]
    ELSE IF headers[index + 2].parent_hash # Hash(headers[index + 1])
    THEN [err |-> "ValidationError", examined |-> index + 1, sealed |-> sealed]
    ELSE IF index \in indices /\ ~VM_validate_seal(headers[index + 2])
    THEN [err |-> "ValidationError", examined |-> index + 1,
          sealed |-> sealed \cup {index}]
    ELSE validate_chain_linkage_only(cfg, headers, indices, index + 1,
             IF index \in indices THEN sealed \cup {index} ELSE sealed)

\* The loop of validate_chain (lines 156-172) from position index of the
\* header pairs; headers is root followed by the descendants, so the pair at
\* index is (headers[index + 1], headers[index + 2]). examined counts the
\* children the loop looked at, sealed the indices whose seal it checked.
RECURSIVE validate_chain_from(_, _, _, _, _)
validate_chain_from(cfg, headers, indices, index, sealed) ==
    IF index + 2 > Len(headers)
    THEN [err |-> "ok", examined |-> index, sealed |-> sealed]
    ELSE IF headers[index + 2].parent_hash # Hash(headers[index + 1])
    THEN [err |-> "ValidationError", examined |-> index + 1, sealed |-> sealed]
    ELSE IF Chain_get_vm(cfg, headers[index + 2]) # "ok"
    THEN [err |-> Chain_get_vm(cfg, headers[index + 2]), examined |-> index + 1,
          sealed |-> sealed]
    ELSE IF ~VM_validate_header(headers[index + 2], headers[index + 1])
    THEN [err |-> "ValidationError", examined |-> index + 1, sealed |-> sealed]
    ELSE IF index \in indices /\ ~VM_validate_seal(headers[index + 2])
    THEN [err |-> "ValidationError", examined |-> index + 1,
          sealed |-> sealed \cup {index}]
    ELSE validate_chain_from(cfg, headers, indices, index + 1,
             IF index \in indices THEN sealed \cup {index} ELSE sealed)

\* BaseChain.validate_chain with the sample random.sample returned
validate_chain(cfg, root, descendants, indices) ==
    validate_chain_from(cfg, <<root>> \o descendants, indices, 0, {})

\* Chain.build_block_with_transactions after apply_all_transactions (lines
\* 362-369)
build_block_applied(db, vm_block, transactions, applied) ==
    IF applied.err # "ok"
    THEN [err |-> applied.err, db |-> db, block |-> NoBlock, receipts |-> <<>>]
    ELSE IF ~unpacks_into(applied.value, 3)   \* new_header, receipts, computations = ...
    THEN [err |-> "ValueError", db |-> db, block |-> NoBlock, receipts |-> <<>>]
    ELSE [err |-> "ok",
          db |-> VM_set_block_transactions(db, vm_block, applied.value[1],
                                           transactions, applied.value[2]).db,
          block |-> VM_set_block_transactions(db, vm_block, applied.value[1],
                                              transactions, applied.value[2]).block,
          receipts |-> applied.value[2]]

\* Chain.build_block_with_transactions on base_header, the header ensure_header
\* gave
build_block_on(cfg, db, transactions, base_header) ==
    IF Chain_get_vm(cfg, base_header) # "ok"
    THEN [err |-> Chain_get_vm(cfg, base_header), db |-> db, block |-> NoBlock,
          receipts |-> <<>>]
    ELSE build_block_applied(db, Block_from_header(db, base_header), transactions,
             apply_all_transactions(build_state(db, base_header), base_header,
                                    transactions, base_header))

\* Chain.build_block_with_transactions(transactions, parent_header); given is
\* FALSE when parent_header is None
Chain_build_block_with_transactions(cfg, db, transactions, given, parent_header) ==
    IF given
    THEN build_block_on(cfg, db, transactions, parent_header)
    ELSE IF Chain_ensure_header(cfg, db).err # "ok"
    THEN [err |-> Chain_ensure_header(cfg, db).err, db |-> db, block |-> NoBlock,
          receipts |-> <<>>]
    ELSE build_block_on(cfg, db, transactions, Chain_ensure_header(cfg, db).value)

\* VM.in_costless_state: the state of a new VM under a snapshot on entry,
\* reverted to it on exit, also when the body raises
costless_enter(db, hdr) == State_snapshot(build_state(db, hdr))
costless_exit(state) == State_revert(state, 1)

intrinsic_gas(tx) == 1

\* State.costless_execute_transaction with the gas limit spoofed to gas: the
\* execution runs out of gas when the limit is below what it uses
costless_executed(r, tx, gas) ==
    IF r.err = "ok" /\ gas < tx.gas
    THEN [err |-> "OutOfGas", state |-> r.state, output |-> <<>>]
    ELSE [err |-> r.err, state |-> r.state, output |-> r.computation.logs]

State_costless_execute_transaction(state, tx, gas) ==
    costless_executed(State_apply_transaction(state, tx), tx, gas)

\* Chain.get_transaction_result once the body of the with block has run
get_transaction_result_run(db, r) ==
    [err |-> r.err, db |-> db, state |-> costless_exit(r.state),
     value |-> IF r.err = "ok" THEN r.output ELSE <<>>]

\* A mutant of Chain.get_transaction_result: the executed state is persisted
\* instead of being dropped.
get_transaction_result_committed(cfg, db, transaction, at_header) ==
    [err |-> State_costless_execute_transaction(
                 costless_enter(db, at_header), transaction, BlockGasLimit).err,
     db |-> State_persist(db,
                State_costless_execute_transaction(
                    costless_enter(db, at_header), transaction, BlockGasLimit).state),
     state |-> State_costless_execute_transaction(
                   costless_enter(db, at_header), transaction, BlockGasLimit).state,
     value |-> <<>>]

\* Chain.get_transaction_result(transaction, at_header)
Chain_get_transaction_result(cfg, db, transaction, at_header) ==
    IF Chain_get_vm(cfg, at_header) # "ok"
    THEN [err |-> Chain_get_vm(cfg, at_header), db |-> db,
          state |-> build_state(db, at_header), value |-> <<>>]
    ELSE get_transaction_result_run(db,
             State_costless_execute_transaction(
                 costless_enter(db, at_header), transaction, BlockGasLimit))

\* One candidate run of the gas estimator: executed under its own snapshot and
\* reverted
candidate_reverted(state, r) ==
    [err |-> r.err, state |-> State_revert(r.state, Len(state.snapshots) + 1)]

get_computation_error(state, tx, gas) ==
    candidate_reverted(state,
        State_costless_execute_transaction(State_snapshot(state), tx, gas))

\* The binary search of the gas estimator between the largest limit known to
\* run out of gas and the smallest known to suffice
RECURSIVE binary_gas_search_loop(_, _, _, _)
binary_gas_search_loop(state, tx, minimum_viable, maximum_out_of_gas) ==
    IF minimum_viable - maximum_out_of_gas > 1
    THEN IF get_computation_error(state, tx,
                (minimum_viable + maximum_out_of_gas) \div 2).err = "ok"
         THEN binary_gas_search_loop(
                  get_computation_error(state, tx,
                      (minimum_viable + maximum_out_of_gas) \div 2).state,
                  tx, (minimum_viable + maximum_out_of_gas) \div 2, maximum_out_of_gas)
         ELSE binary_gas_search_loop(
                  get_computation_error(state, tx,
                      (minimum_viable + maximum_out_of_gas) \div 2).state,
                  tx, minimum_viable, (minimum_viable + maximum_out_of_gas) \div 2)
    ELSE [err |-> "ok", state |-> state, value |-> minimum_viable]

\* The gas estimator after its run at the block gas limit
binary_gas_search_from(tx, maximum) ==
    IF maximum.err # "ok"
    THEN [err |-> maximum.err, state |-> maximum.state, value |-> 0]
    ELSE IF get_computation_error(maximum.state, tx, intrinsic_gas(tx)).err = "ok"
    THEN [err |-> "ok",
          state |-> get_computation_error(maximum.state, tx, intrinsic_gas(tx)).state,
          value |-> intrinsic_gas(tx)]
    ELSE binary_gas_search_loop(
             get_computation_error(maximum.state, tx, intrinsic_gas(tx)).state,
             tx, BlockGasLimit, intrinsic_gas(tx))

binary_gas_search(state, tx) ==
    binary_gas_search_from(tx, get_computation_error(state, tx, BlockGasLimit))

\* Chain.estimate_gas once the estimator has returned or raised
estimate_gas_run(db, r) ==
    [err |-> r.err, db |-> db, state |-> costless_exit(r.state), value |-> r.value]

\* Chain.estimate_gas on the header at_header stands for
estimate_gas_at(cfg, db, transaction, hdr) ==
    IF Chain_get_vm(cfg, hdr) # "ok"
    THEN [err |-> Chain_get_vm(cfg, hdr), db |-> db,
          state |-> build_state(db, hdr), value |-> 0]
    ELSE estimate_gas_run(db, binary_gas_search(costless_enter(db, hdr), transaction))

\* Chain.estimate_gas(transaction, at_header); given is FALSE when at_header
\* is None
Chain_estimate_gas(cfg, db, transaction, given, at_header) ==
    estimate_gas_at(cfg, db, transaction,
        IF given THEN at_header ELSE ChainDB_get_canonical_head(db))

\* The header sequences handed to validate_chain: each header the child of the
\* one before it, or wrong in one field
HeaderFlaws == {"none", "parent_hash", "extra_data", "mix_hash"}

flawed_header(hdr, flaw) ==
    CASE flaw = "parent_hash" -> [hdr EXCEPT !.parent_hash = GENESIS_PARENT_HASH]
      [] flaw = "extra_data" -> [hdr EXCEPT !.extra_data = extra_data_max_bytes + 1]
      [] flaw = "mix_hash" -> [hdr EXCEPT !.mix_hash = 1]
      [] OTHER -> hdr

RECURSIVE descendants_of(_, _, _)
descendants_of(parent, flaws, i) ==
    IF i > Len(flaws) THEN <<>>
    ELSE <<flawed_header(VM_create_header_from_parent(parent), flaws[i])>>
         \o descendants_of(flawed_header(VM_create_header_from_parent(parent), flaws[i]),
                           flaws, i + 1)

FlawSeqs(n) == UNION { [1..k -> HeaderFlaws] : k \in 0..n }

\* chain.validate_chain(root, descendants, rate); indices is the sample
\* random.sample returned
ValidateChain(root, descendants, rate, indices) ==
    /\ ret' = [op |-> "validate_chain", root |-> root, descendants |-> descendants,
               rate |-> rate, indices |-> indices]
              @@ validate_chain(vm_configuration, root, descendants, indices)
    /\ UNCHANGED <<vm_configuration, chaindb, header, vm>>

\* chain.build_block_with_transactions(transactions, parent_header)
BuildBlockWithTransactions(transactions, given, parent_header) ==
    /\ chaindb' = Chain_build_block_with_transactions(
                      vm_configuration, chaindb, transactions, given, parent_header).db
    /\ ret' = [op |-> "build_block_with_transactions", transactions |-> transactions,
               err |-> Chain_build_block_with_transactions(
                           vm_configuration, chaindb, transactions, given,
                           parent_header).err,
               block |-> Chain_build_block_with_transactions(
                             vm_configuration, chaindb, transactions, given,
                             parent_header).block,
               receipts |-> Chain_build_block_with_transactions(
                                vm_configuration, chaindb, transactions, given,
                                parent_header).receipts]
    /\ UNCHANGED <<vm_configuration, header, vm>>

\* chain.get_transaction_result(transaction, at_header)
GetTransactionResult(transaction, at_header) ==
    /\ chaindb' = Chain_get_transaction_result(
                      vm_configuration, chaindb, transaction, at_header).db
    /\ ret' = [op |-> "get_transaction_result", transaction |-> transaction,
               at_header |-> at_header]
              @@ Chain_get_transaction_result(
                     vm_configuration, chaindb, transaction, at_header)
    /\ UNCHANGED <<vm_configuration, header, vm>>

\* chain.estimate_gas(transaction, at_header)
EstimateGas(transaction, given, at_header) ==
    /\ chaindb' = Chain_estimate_gas(
                      vm_configuration, chaindb, transaction, given, at_header).db
    /\ ret' = [op |-> "estimate_gas", transaction |-> transaction,
               at_header |-> IF given THEN at_header
                             ELSE ChainDB_get_canonical_head(chaindb)]
              @@ Chain_estimate_gas(
                     vm_configuration, chaindb, transaction, given, at_header)
    /\ UNCHANGED <<vm_configuration, header, vm>>

\* The transactions handed to the read-only calls
ReadTransactions == [sender : Accounts, nonce : {0}, gas : GasValues]

NextAPI ==
    \/ \E block \in ImportedBlocks(chaindb), pv \in BOOLEAN : ImportBlock(block, pv)
    \/ \E parent \in chaindb.headers : CreateHeaderFromParent(parent)
    \/ \E tx \in ChainTransactions : ApplyTransaction(tx)
    \/ \E extra \in {-1, extra_data_max_bytes + 1} : MineBlock(extra)
    \/ \E flaws \in FlawSeqs(1), rate \in {0, 1} :
          \E indices \in indices_to_check_seal(Len(flaws), rate) :
             ValidateChain(ChainDB_get_canonical_head(chaindb),
                 descendants_of(ChainDB_get_canonical_head(chaindb), flaws, 1),
                 rate, indices)
    \/ \E txs \in ChainTxSeqs, given \in BOOLEAN :
          BuildBlockWithTransactions(txs, given, header)
    \/ \E tx \in ReadTransactions, at_header \in chaindb.headers :
          GetTransactionResult(tx, at_header)
    \/ \E tx \in ReadTransactions, given \in BOOLEAN :
          EstimateGas(tx, given, header)

SpecAPI == Init /\ [][NextAPI]_vars

\* validate_chain on its own: every root, header sequence, rate and sample
InitValidateChain ==
    /\ vm_configuration = ChainConfiguration
    /\ chaindb = GenesisDB({})
    /\ header = None
    /\ vm = None
    /\ ret = NoCall

ValidateChainRoots ==
    {GenesisHeader, VM_create_header_from_parent(GenesisHeader)}

NextValidateChain ==
    \E root \in ValidateChainRoots, flaws \in FlawSeqs(MaxDescendants),
       rate \in 0..MaxSampleRate :
       \E indices \in indices_to_check_seal(Len(flaws), rate) :
          ValidateChain(root, descendants_of(root, flaws, 1), rate, indices)

SpecValidateChain == InitValidateChain /\ [][NextValidateChain]_vars

\* The calls that read the chain or work on the in-progress block only
ReadOnlyCalls ==
    {"validate_chain", "create_header_from_parent", "build_block_with_transactions",
     "estimate_gas", "get_transaction_result", "apply_transaction"}

\* C22: validate_chain, create_header_from_parent,
\* build_block_with_transactions, estimate_gas, get_transaction_result and
\* MiningChain.apply_transaction leave the canonical head and the canonical
\* index as they were, and so does an import_block or mine_block that fails.
HeadMovesOnlyOnPersist ==
    [][(\/ ret'.op \in ReadOnlyCalls
        \/ (ret'.op \in {"import_block", "mine_block"} /\ ret'.err # "ok"))
         => /\ chaindb'.head = chaindb.head
            /\ chaindb'.canonical = chaindb.canonical]_vars

\* C22 witness: a transaction applied to the in-progress block on top of a
\* mined block, the head still that mined block.
HeadMovesOnlyOnPersistWitness ==
    /\ ret.op = "apply_transaction"
    /\ ret.err = "ok"
    /\ header.transaction_root # BLANK_ROOT_HASH
    /\ chaindb.head # Hash(GenesisHeader)
    /\ chaindb.head = header.parent_hash

\* C23: estimate_gas and get_transaction_result, whatever the transaction and
\* whether the execution succeeds or raises, leave the database, with its
\* persisted state roots and its canonical head, and the working header as
\* they were, and the state view they ran on holds the accounts of the
\* reference header's state root again, with no snapshot open.
CostlessCallsLeaveNoTrace ==
    [][ret'.op \in {"estimate_gas", "get_transaction_result"}
         => /\ chaindb' = chaindb
            /\ header' = header
            /\ ret'.state.accounts = accounts_at(ret'.at_header.state_root)
            /\ ret'.state.snapshots = <<>>]_vars

\* C23 witness: a gas estimate found by the binary search, above the intrinsic
\* gas, for a transaction that executes.
CostlessCallsLeaveNoTraceWitness ==
    /\ ret.op = "estimate_gas"
    /\ ret.err = "ok"
    /\ ret.value = ret.transaction.gas
    /\ ret.value > intrinsic_gas(ret.transaction)

\* C27: a build_block_with_transactions call whose transactions ran returns a
\* block that holds the applied transactions, with as many receipts behind its
\* receipt root as transactions behind its transaction root.
AssembledBlockHoldsAppliedTransactions ==
    (ret.op = "build_block_with_transactions" /\ ret.err # "EVMMissingData")
      => /\ ret.err = "ok"
         /\ Len(trie_items(ret.block.header.receipt_root))
              = Len(trie_items(ret.block.header.transaction_root))
         /\ Len(ret.receipts) = Len(ret.block.transactions)

\* The positions of the descendants that are not linked to the header before
\* them or break the header rules
broken_positions(root, descendants) ==
    { i \in 1..Len(descendants) :
        ~ (/\ descendants[i].parent_hash = Hash((<<root>> \o descendants)[i])
           /\ VM_validate_header(descendants[i], (<<root>> \o descendants)[i])) }

first_position(positions) == CHOOSE i \in positions : \A j \in positions : i <= j

\* C25: validate_chain succeeds only when every descendant is linked to the
\* header before it and passes the header rules; when some descendant is not,
\* the call fails with a validation error and examines no header after the
\* first such descendant.
ValidateChainStopsAtFirstBroken ==
    ret.op = "validate_chain"
      => /\ ret.err = "ok" => broken_positions(ret.root, ret.descendants) = {}
         /\ broken_positions(ret.root, ret.descendants) # {}
              => /\ ret.err = "ValidationError"
                 /\ ret.examined <= first_position(
                                        broken_positions(ret.root, ret.descendants))
                 /\ (ret.examined < first_position(
                                        broken_positions(ret.root, ret.descendants))
                       => ~VM_validate_seal(ret.descendants[ret.examined]))

\* C25 witness: two descendants, the first one broken and the only one
\* examined.
ValidateChainStopsAtFirstBrokenWitness ==
    /\ ret.op = "validate_chain"
    /\ Len(ret.descendants) = 2
    /\ 1 \in broken_positions(ret.root, ret.descendants)
    /\ ret.err = "ValidationError"
    /\ ret.examined = 1

\* C26: on a sequence whose headers are all linked, valid and sealed,
\* validate_chain checks the seal of every descendant at rate 1, of none at
\* rate 0, and at any other rate r of a set of distinct descendants of size
\* len(descendants) divided by r, rounded down.
SealSampleFollowsRate ==
    (/\ ret.op = "validate_chain"
     /\ broken_positions(ret.root, ret.descendants) = {}
     /\ \A i \in 1..Len(ret.descendants) : VM_validate_seal(ret.descendants[i]))
      => /\ ret.err = "ok"
         /\ ret.sealed \subseteq 0..(Len(ret.descendants) - 1)
         /\ ret.rate = 1 => ret.sealed = 0..(Len(ret.descendants) - 1)
         /\ ret.rate = 0 => ret.sealed = {}
         /\ ret.rate \notin {0, 1}
              => Cardinality(ret.sealed) = Len(ret.descendants) \div ret.rate

\* C26 witness: one of two valid descendants seal-checked at rate 2.
SealSampleFollowsRateWitness ==
    /\ ret.op = "validate_chain"
    /\ ret.err = "ok"
    /\ Len(ret.descendants) = 2
    /\ ret.rate = 2
    /\ Cardinality(ret.sealed) = 1

(***************************************************************************)
(* MiningChain.mine_block_extended one call at a time, with readers of the *)
(* canonical chain running between its calls. vm holds the position of the *)
(* mining call and the block it has in hand.                               *)
(***************************************************************************)
\* Chain.get_canonical_block_by_number
Chain_get_canonical_block_by_number(db, n) ==
    IF n + 1 > Len(db.canonical)
    THEN [err |-> "HeaderNotFound", value |-> NoBlock]
    ELSE [err |-> "ok", value |-> Chain_get_block_by_hash(db, db.canonical[n + 1])]

\* Chain.get_canonical_transaction once the lookup is found: the transaction
\* at the lookup's position in the canonical block of the lookup's number
canonical_transaction_at(db, tx, lookup) ==
    IF \/ lookup.block_number + 1 > Len(db.canonical)
       \/ Chain_get_canonical_block_by_number(db, lookup.block_number).err # "ok"
       \/ lookup.index + 1 > Len(Chain_get_canonical_block_by_number(
                                     db, lookup.block_number).value.transactions)
    THEN [err |-> "TransactionNotFound", value |-> None]
    ELSE IF Chain_get_canonical_block_by_number(
                db, lookup.block_number).value.transactions[lookup.index + 1] = tx
    THEN [err |-> "ok", value |-> tx]
    ELSE [err |-> "TransactionNotFound", value |-> None]

\* Chain.get_canonical_transaction(transaction_hash)
Chain_get_canonical_transaction(db, tx) ==
    IF \A e \in db.tx_index : e.transaction # tx
    THEN [err |-> "TransactionNotFound", value |-> None]
    ELSE canonical_transaction_at(db, tx,
             CHOOSE e \in db.tx_index : e.transaction = tx)

Idle == [pc |-> "idle"]

InitReaders ==
    /\ vm_configuration = ChainConfiguration
    /\ \E missing \in {{}, {"b"}} : chaindb = GenesisDB(missing)
    /\ header = Chain_ensure_header(vm_configuration, chaindb).value
    /\ vm = Idle
    /\ ret = NoCall

\* MiningChain.apply_transaction, between two mining calls
MinerApplyTransaction(tx) ==
    /\ vm.pc = "idle"
    /\ chaindb' = MiningChain_apply_transaction(vm_configuration, chaindb, header, tx).db
    /\ header' = MiningChain_apply_transaction(vm_configuration, chaindb, header, tx).header
    /\ ret' = [op |-> "apply_transaction", transaction |-> tx,
               err |-> MiningChain_apply_transaction(
                           vm_configuration, chaindb, header, tx).err]
    /\ UNCHANGED <<vm_configuration, vm>>

\* mine_block_extended lines 631-635: the VM mines the block of the working
\* header
MineBlockMine(extra) ==
    /\ vm.pc = "idle"
    /\ header.block_number <= MaxHeight
    /\ Chain_get_vm(vm_configuration, header) = "ok"
    /\ chaindb' = VM_mine_block(chaindb, build_state(chaindb, header),
                                Block_from_header(chaindb, header), extra).db
    /\ vm' = IF VM_mine_block(chaindb, build_state(chaindb, header),
                              Block_from_header(chaindb, header), extra).err = "ok"
             THEN [pc |-> "validate_block",
                   block |-> VM_mine_block(chaindb, build_state(chaindb, header),
                                 Block_from_header(chaindb, header), extra).block]
             ELSE Idle
    /\ ret' = [op |-> "vm.mine_block", extra_data |-> extra,
               err |-> VM_mine_block(chaindb, build_state(chaindb, header),
                           Block_from_header(chaindb, header), extra).err]
    /\ UNCHANGED <<vm_configuration, header>>

\* mine_block_extended line 637: self.validate_block(mined_block)
MineBlockValidate ==
    /\ vm.pc = "validate_block"
    /\ vm' = IF Chain_validate_block(vm_configuration, chaindb, vm.block) = "ok"
             THEN [vm EXCEPT !.pc = "persist_block"]
             ELSE Idle
    /\ ret' = [op |-> "validate_block",
               err |-> Chain_validate_block(vm_configuration, chaindb, vm.block)]
    /\ UNCHANGED <<vm_configuration, chaindb, header>>

\* mine_block_extended line 639: self.chaindb.persist_block(mined_block)
MineBlockPersist ==
    /\ vm.pc = "persist_block"
    /\ chaindb' = ChainDB_persist_block(chaindb, vm.block).db
    /\ vm' = IF ChainDB_persist_block(chaindb, vm.block).err = "ok"
             THEN [vm EXCEPT !.pc = "create_header"]
             ELSE Idle
    /\ ret' = [op |-> "persist_block",
               err |-> ChainDB_persist_block(chaindb, vm.block).err]
    /\ UNCHANGED <<vm_configuration, header>>

\* mine_block_extended line 640: self.header = create_header_from_parent(...)
MineBlockCreateHeader ==
    /\ vm.pc = "create_header"
    /\ header' = Chain_create_header_from_parent(vm_configuration, vm.block.header).value
    /\ vm' = Idle
    /\ ret' = [op |-> "mine_block", err |-> "ok", block |-> vm.block]
    /\ UNCHANGED <<vm_configuration, chaindb>>

\* A reader's chain.get_canonical_block_by_number(n), at any point of the
\* mining call
ReadCanonicalBlock(n) ==
    /\ ret' = [op |-> "get_canonical_block_by_number", block_number |-> n,
               pc |-> vm.pc]
              @@ Chain_get_canonical_block_by_number(chaindb, n)
    /\ UNCHANGED <<vm_configuration, chaindb, header, vm>>

\* A reader's chain.get_canonical_transaction(tx.hash), at any point of the
\* mining call
ReadCanonicalTransaction(tx) ==
    /\ ret' = [op |-> "get_canonical_transaction", transaction |-> tx, pc |-> vm.pc]
              @@ Chain_get_canonical_transaction(chaindb, tx)
    /\ UNCHANGED <<vm_configuration, chaindb, header, vm>>

NextReaders ==
    \/ \E tx \in ChainTransactions : MinerApplyTransaction(tx)
    \/ \E extra \in {-1, extra_data_max_bytes + 1} : MineBlockMine(extra)
    \/ MineBlockValidate
    \/ MineBlockPersist
    \/ MineBlockCreateHeader
    \/ \E n \in 0..(MaxHeight + 1) : ReadCanonicalBlock(n)
    \/ \E tx \in ChainTransactions : ReadCanonicalTransaction(tx)

SpecReaders == InitReaders /\ [][NextReaders]_vars

\* The header of the canonical block number n
canonical_header(n) == CHOOSE h \in chaindb.headers : Hash(h) = chaindb.canonical[n + 1]

MaxMemorySize == 1024   \* largest memory size in bytes priced

GAS_MEMORY == 3
GAS_MEMORY_QUADRATIC_DENOMINATOR == 512

\* ceil32: the value rounded up to a multiple of 32
ceil32(value) ==
    IF value % 32 = 0 THEN value ELSE value + 32 - (value % 32)

\* A mutant of memory_gas_cost: the size in words is rounded down.
memory_gas_cost_floor_words(size_in_bytes) ==
    (size_in_bytes \div 32) * GAS_MEMORY
      + ((size_in_bytes \div 32) * (size_in_bytes \div 32))
          \div GAS_MEMORY_QUADRATIC_DENOMINATOR

\* memory_gas_cost
memory_gas_cost(size_in_bytes) ==
    LET size_in_words == ceil32(size_in_bytes) \div 32
        linear_cost == size_in_words * GAS_MEMORY
        quadratic_cost == (size_in_words * size_in_words)
                             \div GAS_MEMORY_QUADRATIC_DENOMINATOR
    IN  linear_cost + quadratic_cost

InitMemory ==
    /\ vm_configuration = None
    /\ chaindb = None
    /\ header = None
    /\ vm = None
    /\ ret = NoCall

MemoryGasCost(size_in_bytes) ==
    /\ ret' = [op |-> "memory_gas_cost", size_in_bytes |-> size_in_bytes,
               value |-> memory_gas_cost(size_in_bytes)]
    /\ UNCHANGED <<vm_configuration, chaindb, header, vm>>

NextMemory == \E size_in_bytes \in 0..MaxMemorySize : MemoryGasCost(size_in_bytes)

SpecMemory == InitMemory /\ [][NextMemory]_vars

\* The least number of 32-byte words that hold size bytes
words_for(size) ==
    CHOOSE w \in 0..size : 32 * w >= size /\ (w = 0 \/ 32 * (w - 1) < size)

\* C29: memory_gas_cost(size) is words*GAS_MEMORY plus the floor of words
\* squared over GAS_MEMORY_QUADRATIC_DENOMINATOR, words being the 32-byte words
\* that hold size bytes; it is 0 for size 0 and no smaller size costs more.
MemoryCostLinearPlusQuadratic ==
    ret.op = "memory_gas_cost"
      => /\ ret.value * GAS_MEMORY_QUADRATIC_DENOMINATOR
              <= words_for(ret.size_in_bytes) * GAS_MEMORY
                     * GAS_MEMORY_QUADRATIC_DENOMINATOR
                   + words_for(ret.size_in_bytes) * words_for(ret.size_in_bytes)
         /\ (ret.value + 1) * GAS_MEMORY_QUADRATIC_DENOMINATOR
              > words_for(ret.size_in_bytes) * GAS_MEMORY
                    * GAS_MEMORY_QUADRATIC_DENOMINATOR
                  + words_for(ret.size_in_bytes) * words_for(ret.size_in_bytes)
         /\ ret.size_in_bytes = 0 => ret.value = 0
         /\ \A smaller \in 0..ret.size_in_bytes : memory_gas_cost(smaller) <= ret.value

\* C29 witness: a size that is not a multiple of 32 and large enough for the
\* quadratic term to count.
MemoryCostLinearPlusQuadraticWitness ==
    /\ ret.op = "memory_gas_cost"
    /\ ret.size_in_bytes % 32 # 0
    /\ ret.value > words_for(ret.size_in_bytes) * GAS_MEMORY

(***************************************************************************)
(* The computation engine: frames of execution, their gas and their errors *)
(* (src/xvm/exceptions.py for the error kinds and their attributes).       *)
(***************************************************************************)
MaxGas == 8             \* largest gas allotment of a top-level message
StackCapacity == 2      \* the items the stack of a frame holds
DepthLimit == 2         \* the deepest frame of the call stack

\* The classes of errors raised during VM execution: VMError and its subclasses
VMErrorKinds ==
    {"VMError", "OutOfGas", "InsufficientStack", "FullStack", "InvalidJumpDestination",
     "InvalidInstruction", "InsufficientFunds", "StackDepthLimit",
     "ContractCreationCollision", "IncorrectContractCreationAddress", "Revert",
     "WriteProtection", "OutOfBoundsRead", "ReservedBytesInCode"}

\* The attributes the body of class VMError sets
VMError_attributes == [burns_gas |-> TRUE, erases_return_data |-> TRUE]

\* A mutant of the class bodies: the attributes of Revert are set on OutOfGas
\* as well.
own_attributes_also_out_of_gas(kind) ==
    IF kind \in {"Revert", "OutOfGas"}
    THEN [burns_gas |-> FALSE, erases_return_data |-> FALSE]
    ELSE <<>>

\* The attributes the body of the class of an error kind sets itself
own_attributes(kind) ==
    IF kind = "Revert"
    THEN [burns_gas |-> FALSE, erases_return_data |-> FALSE]
    ELSE <<>>

\* Attribute lookup on an error: the class's own attribute, else VMError's
class_attribute(kind, name) ==
    IF name \in DOMAIN own_attributes(kind)
    THEN own_attributes(kind)[name]
    ELSE VMError_attributes[name]

burns_gas(kind) == class_attribute(kind, "burns_gas")
erases_return_data(kind) == class_attribute(kind, "erases_return_data")

\* The instructions of the programs
Instr(op, arg) == [op |-> op, arg |-> arg]
PUSH == Instr("PUSH", 0)
POP == Instr("POP", 0)
SSTORE == Instr("SSTORE", 0)
LOG == Instr("LOG", 0)
JUMPDEST == Instr("JUMPDEST", 0)
RETURN == Instr("RETURN", 0)
REVERT == Instr("REVERT", 0)
INVALID == Instr("INVALID", 0)
JUMP(dest) == Instr("JUMP", dest)
MSTORE(size) == Instr("MSTORE", size)
CALL(code, gas, static) == Instr("CALL", [code |-> code, gas |-> gas, static |-> static])

\* The programs run: each a code, named
Programs ==
    [store     |-> <<PUSH, SSTORE, PUSH, SSTORE, RETURN>>,
     underflow |-> <<PUSH, SSTORE, POP>>,
     overflow  |-> <<PUSH, PUSH, PUSH, PUSH>>,
     revert    |-> <<JUMP(3), INVALID, JUMPDEST, PUSH, SSTORE, REVERT>>,
     badjump   |-> <<PUSH, SSTORE, JUMP(1)>>,
     invalid   |-> <<PUSH, SSTORE, INVALID>>,
     memory    |-> <<MSTORE(33), MSTORE(32), PUSH, SSTORE>>,
     caller    |-> <<PUSH, SSTORE, CALL("invalid", 3, FALSE), PUSH>>,
     catcher   |-> <<CALL("revert", 6, FALSE), PUSH>>,
     forwarder |-> <<CALL("store", 7, FALSE), PUSH>>,
     reader    |-> <<CALL("store", 7, TRUE), RETURN>>,
     logger    |-> <<LOG, RETURN>>,
     log_reader |-> <<CALL("logger", 3, TRUE), PUSH>>,
     deep_reader |-> <<CALL("forwarder", MaxGas, TRUE), PUSH>>,
     recurse   |-> <<CALL("recurse", MaxGas, FALSE)>>]

\* The gas an instruction costs whatever its operands
static_gas(instr) ==
    CASE instr.op = "SSTORE" -> 1
      [] instr.op = "REVERT" -> 0
      [] instr.op = "RETURN" -> 0
      [] OTHER -> 1

NoError == "None"

\* A frame: the Computation of one message
new_frame(code, gas, static, depth, storage) ==
    [code |-> code, pc |-> 1, gas |-> gas, stack |-> 0, memory |-> 0,
     static |-> static, depth |-> depth, status |-> "RUNNING", error |-> NoError,
     output |-> <<>>, return_data |-> <<>>, snapshot |-> storage, call_gas |-> 0]

NoFrame == [status |-> "none"]

\* What one instruction leaves: the frame, the storage, and the frame of the
\* child message it spawned
stepped(frame, storage) == [frame |-> frame, storage |-> storage, child |-> NoFrame]

\* The frame leaves through an error: the gas is burnt and the output erased
\* as the error's class says, and the state goes back to the snapshot taken
\* when the frame was entered
raise(frame, storage, kind) ==
    stepped([frame EXCEPT !.status = IF kind = "Revert" THEN "REVERTED" ELSE "ERRORED",
                          !.error = kind,
                          !.gas = IF burns_gas(kind) THEN 0 ELSE @,
                          !.output = IF erases_return_data(kind) THEN <<>> ELSE @],
            frame.snapshot)

\* A mutant of GasMeter.consume_gas: the amount is taken without the check.
consume_gas_unchecked(frame, storage, amount) ==
    stepped([frame EXCEPT !.gas = @ - amount], storage)

\* GasMeter.consume_gas
consume_gas(frame, storage, amount) ==
    IF amount > frame.gas
    THEN raise(frame, storage, "OutOfGas")
    ELSE stepped([frame EXCEPT !.gas = @ - amount], storage)

\* The memory a frame holds after an access of size bytes, in bytes
extended(frame, size) == IF ceil32(size) > frame.memory THEN ceil32(size) ELSE frame.memory

\* The gas an instruction costs beyond its static gas, on this frame
dynamic_gas(frame, instr) ==
    CASE instr.op = "SSTORE" -> 1
      [] instr.op = "LOG" -> 1
      [] instr.op = "MSTORE" ->
            memory_gas_cost(extended(frame, instr.arg)) - memory_gas_cost(frame.memory)
      [] instr.op = "CALL" -> IF instr.arg.gas < frame.gas THEN instr.arg.gas ELSE frame.gas
      [] OTHER -> 0

\* The opcodes that change the state
StateMutatingOpcodes == {"SSTORE", "LOG"}

\* A mutant of the static flag of a child message: the caller's flag is not
\* handed down.
child_is_static_by_call_only(frame, instr) == instr.arg.static

\* The static flag of the message of a child: the caller's, or the CALL's own
child_is_static(frame, instr) == frame.static \/ instr.arg.static

\* The handler of an instruction once its dynamic gas is charged
handle_charged(charged, instr) ==
    IF charged.frame.status # "RUNNING" THEN charged
    ELSE CASE instr.op = "SSTORE" ->
                stepped([charged.frame EXCEPT !.stack = @ - 1, !.pc = @ + 1],
                        Append(charged.storage, charged.frame.code))
           [] instr.op = "LOG" ->
                stepped([charged.frame EXCEPT !.pc = @ + 1],
                        Append(charged.storage, charged.frame.code))
           [] instr.op = "MSTORE" ->
                stepped([charged.frame EXCEPT !.memory = extended(charged.frame, instr.arg),
                                              !.pc = @ + 1],
                        charged.storage)
           [] instr.op = "CALL" ->
                [frame |-> charged.frame, storage |-> charged.storage,
                 child |-> new_frame(instr.arg.code,
                               charged.frame.call_gas - static_gas(instr) - charged.frame.gas,
                               child_is_static(charged.frame, instr),
                               charged.frame.depth + 1, charged.storage)]
           [] OTHER -> charged

\* The handler of an instruction, its static gas charged
handle(frame, storage, instr) ==
    CASE instr.op = "PUSH" ->
           IF frame.stack = StackCapacity THEN raise(frame, storage, "FullStack")
           ELSE stepped([frame EXCEPT !.stack = @ + 1, !.pc = @ + 1], storage)
      [] instr.op = "POP" ->
           IF frame.stack = 0 THEN raise(frame, storage, "InsufficientStack")
           ELSE stepped([frame EXCEPT !.stack = @ - 1, !.pc = @ + 1], storage)
      [] instr.op = "JUMPDEST" -> stepped([frame EXCEPT !.pc = @ + 1], storage)
      [] instr.op = "JUMP" ->
           IF \/ instr.arg \notin 1..Len(Programs[frame.code])
              \/ Programs[frame.code][instr.arg].op # "JUMPDEST"
           THEN raise(frame, storage, "InvalidJumpDestination")
           ELSE stepped([frame EXCEPT !.pc = instr.arg], storage)
      [] instr.op = "RETURN" ->
           stepped([frame EXCEPT !.status = "HALTED", !.output = <<frame.code>>], storage)
      [] instr.op = "REVERT" ->
           raise([frame EXCEPT !.output = <<frame.code>>], storage, "Revert")
      [] instr.op = "LOG" ->
           IF frame.static THEN raise(frame, storage, "WriteProtection")
           ELSE handle_charged(consume_gas(frame, storage, dynamic_gas(frame, instr)), instr)
      [] instr.op = "SSTORE" ->
           IF frame.static THEN raise(frame, storage, "WriteProtection")
           ELSE IF frame.stack = 0 THEN raise(frame, storage, "InsufficientStack")
           ELSE handle_charged(consume_gas(frame, storage, dynamic_gas(frame, instr)), instr)
      [] OTHER ->
           handle_charged(consume_gas(frame, storage, dynamic_gas(frame, instr)), instr)

\* The handler of the fetched instruction, after its static gas
execute_charged(charged, instr) ==
    IF charged.frame.status # "RUNNING" THEN charged
    ELSE handle(charged.frame, charged.storage, instr)

\* One turn of the loop of a RUNNING frame
execute(frame, storage) ==
    IF frame.depth > DepthLimit THEN raise(frame, storage, "StackDepthLimit")
    ELSE IF frame.pc > Len(Programs[frame.code])
    THEN stepped([frame EXCEPT !.status = "HALTED"], storage)
    ELSE IF Programs[frame.code][frame.pc].op = "INVALID"
    THEN raise(frame, storage, "InvalidInstruction")
    ELSE execute_charged(
             consume_gas([frame EXCEPT !.call_gas = frame.gas], storage,
                         static_gas(Programs[frame.code][frame.pc])),
             Programs[frame.code][frame.pc])

\* The end of a CALL: the child's result folded into the parent, which goes on
fold(parent, child) ==
    [parent EXCEPT !.gas = @ + child.gas, !.return_data = child.output, !.pc = @ + 1]

\* The computations in progress: the call stack, innermost frame last, and the
\* state the frames write
InitFrame ==
    /\ vm_configuration = None
    /\ chaindb = None
    /\ header = None
    /\ \E code \in DOMAIN Programs, gas \in 0..MaxGas :
          vm = [frames |-> <<new_frame(code, gas, FALSE, 0, <<>>)>>, storage |-> <<>>]
    /\ ret = NoCall

top(frames) == frames[Len(frames)]

\* The call stack once the innermost frame has run one instruction
frames_after(frames, result) ==
    IF result.child = NoFrame
    THEN [frames EXCEPT ![Len(frames)] = result.frame]
    ELSE Append([frames EXCEPT ![Len(frames)] = result.frame], result.child)

\* The innermost frame, RUNNING, executes one instruction
ExecuteInstruction ==
    /\ top(vm.frames).status = "RUNNING"
    /\ vm' = [frames |-> frames_after(vm.frames, execute(top(vm.frames), vm.storage)),
              storage |-> execute(top(vm.frames), vm.storage).storage]
    /\ ret' = [op |-> "execute", before |-> top(vm.frames), storage |-> vm.storage]
    /\ UNCHANGED <<vm_configuration, chaindb, header>>

\* The innermost frame has ended: its parent takes its gas and output and goes on
ReturnToParent ==
    /\ Len(vm.frames) > 1
    /\ top(vm.frames).status # "RUNNING"
    /\ vm' = [frames |-> [i \in 1..(Len(vm.frames) - 1) |->
                             IF i = Len(vm.frames) - 1
                             THEN fold(vm.frames[i], top(vm.frames))
                             ELSE vm.frames[i]],
              storage |-> vm.storage]
    /\ ret' = [op |-> "return", before |-> vm.frames[Len(vm.frames) - 1],
               child |-> top(vm.frames), storage |-> vm.storage]
    /\ UNCHANGED <<vm_configuration, chaindb, header>>

NextFrame == ExecuteInstruction \/ ReturnToParent

SpecFrame == InitFrame /\ [][NextFrame]_vars

\* The frame an ExecuteInstruction step leaves where the executing frame was
executed_frame == vm.frames[Len(vm.frames) - (IF ret.op = "execute" /\ Len(vm.frames) > 1
                                                 /\ top(vm.frames).depth > ret.before.depth
                                              THEN 1 ELSE 0)]

\* The frame has ended through an error of kind: what its caller is handed
ended_as(frame, before, kind) ==
    IF kind = "Revert"
    THEN frame.gas = before.gas /\ frame.output = <<frame.code>>
    ELSE frame.gas = 0 /\ frame.output = <<>>

\* C28: of the errors of a frame, Revert alone neither burns the remaining gas
\* nor erases the return data: a frame ended by Revert keeps its unused gas and
\* its output and its caller receives both, and a frame ended by any other
\* error is left with no gas and no output, and its caller receives neither.
RevertAloneKeepsGasAndOutput ==
    /\ \A kind \in VMErrorKinds :
          /\ burns_gas(kind) <=> kind # "Revert"
          /\ erases_return_data(kind) <=> kind # "Revert"
    /\ (ret # NoCall /\ ret.op = "execute" /\ executed_frame.error # NoError) =>
          /\ executed_frame.error \in VMErrorKinds
          /\ ended_as(executed_frame, ret.before, executed_frame.error)
    /\ (ret # NoCall /\ ret.op = "return" /\ ret.child.error # NoError) =>
          IF ret.child.error = "Revert"
          THEN /\ top(vm.frames).gas = ret.before.gas + ret.child.gas
               /\ top(vm.frames).return_data = <<ret.child.code>>
          ELSE /\ top(vm.frames).gas = ret.before.gas
               /\ top(vm.frames).return_data = <<>>

\* A caller has received the unused gas and the output of a callee that
\* reverted with gas left
RevertAloneKeepsGasAndOutputWitness ==
    /\ ret # NoCall /\ ret.op = "return"
    /\ ret.child.error = "Revert"
    /\ ret.child.gas > 0
    /\ top(vm.frames).gas > ret.before.gas
    /\ top(vm.frames).return_data # <<>>

\* The instruction a RUNNING frame is about to execute is charged for
instruction_charged(frame) ==
    /\ frame.depth <= DepthLimit
    /\ frame.pc <= Len(Programs[frame.code])
    /\ Programs[frame.code][frame.pc].op # "INVALID"

\* The gas the instruction a frame is about to execute takes in all, the
\* handler's own checks passed
step_cost(frame) ==
    LET instr == Programs[frame.code][frame.pc]
        after == [frame EXCEPT !.gas = @ - static_gas(instr)]
    IN  IF static_gas(instr) > frame.gas THEN static_gas(instr)
        ELSE IF instr.op = "SSTORE" /\ (frame.static \/ frame.stack = 0)
        THEN static_gas(instr)
        ELSE IF instr.op = "LOG" /\ frame.static
        THEN static_gas(instr)
        ELSE static_gas(instr) + dynamic_gas(after, instr)

\* C30: the gas remaining in a frame never increases across an instruction
\* (the whole of a nested call included) and never goes below zero; an
\* instruction whose cost exceeds the gas remaining fails with OutOfGas, and
\* nothing it changed is kept: stack, memory and program counter stay and the
\* state is the one the frame was entered with.
GasNeverIncreases ==
    /\ (ret # NoCall /\ ret.op = "execute") =>
          /\ executed_frame.gas <= ret.before.gas
          /\ executed_frame.gas >= 0
          /\ (instruction_charged(ret.before) /\ step_cost(ret.before) > ret.before.gas) =>
                /\ executed_frame.status = "ERRORED"
                /\ executed_frame.error = "OutOfGas"
                /\ executed_frame.stack = ret.before.stack
                /\ executed_frame.memory = ret.before.memory
                /\ executed_frame.pc = ret.before.pc
                /\ vm.storage = ret.before.snapshot
                /\ Len(vm.frames) = ret.before.depth + 1
    /\ (ret # NoCall /\ ret.op = "return") =>
          /\ top(vm.frames).gas <= ret.before.call_gas
          /\ top(vm.frames).gas >= 0

\* A frame that had written to the state could pay the static gas of an
\* instruction but not all of its cost: it ended with OutOfGas and its writes
\* are gone
GasNeverIncreasesWitness ==
    /\ ret # NoCall /\ ret.op = "execute"
    /\ instruction_charged(ret.before)
    /\ static_gas(Programs[ret.before.code][ret.before.pc]) <= ret.before.gas
    /\ step_cost(ret.before) > ret.before.gas
    /\ ret.storage # ret.before.snapshot
    /\ executed_frame.error = "OutOfGas"
    /\ vm.storage = ret.before.snapshot

\* C31: in a static frame, and in every frame below one, an instruction that
\* would change the state (its static gas paid) ends the frame with
\* WriteProtection, whatever the stack and the gas left for the write, and the
\* state is the one before the instruction; no frame below a static frame is
\* not static.
StaticFrameNeverWrites ==
    /\ \A i \in 1..(Len(vm.frames) - 1) : vm.frames[i].static => vm.frames[i + 1].static
    /\ (/\ ret # NoCall /\ ret.op = "execute"
        /\ ret.before.static
        /\ instruction_charged(ret.before)
        /\ Programs[ret.before.code][ret.before.pc].op \in StateMutatingOpcodes
        /\ static_gas(Programs[ret.before.code][ret.before.pc]) <= ret.before.gas) =>
          /\ executed_frame.status = "ERRORED"
          /\ executed_frame.error = "WriteProtection"
          /\ vm.storage = ret.storage
    /\ (ret # NoCall /\ ret.op = "execute" /\ ret.before.static) => vm.storage = ret.storage

\* A frame entered by a CALL that is not static, from a frame entered by a
\* static CALL, tried to store: it ended with WriteProtection
StaticFrameNeverWritesWitness ==
    /\ ret # NoCall /\ ret.op = "execute"
    /\ ret.before.depth = 2
    /\ Programs[ret.before.code][ret.before.pc].op = "SSTORE"
    /\ executed_frame.error = "WriteProtection"
    /\ vm.frames[1].static = FALSE
    /\ vm.storage = ret.storage

(***************************************************************************)
(* Construction of a chain (Chain.__init__).                               *)
(***************************************************************************)

\* The configurations a chain class may be given: any entries in any order,
\* none included
AnyConfigs == UNION { [1..n -> ConfigEntries] : n \in 0..MaxConfigLen }

\* validate_vm_configuration: the entries ascend by starting block and the
\* first starts at the block number of genesis
validate_vm_configuration(cfg) ==
    /\ \A i \in 1..(Len(cfg) - 1) : cfg[i].start_block < cfg[i + 1].start_block
    /\ Len(cfg) >= 1 => cfg[1].start_block = GenesisHeader.block_number

\* A mutant of the constructor: the emptiness of the configuration is not
\* tested.
Chain_init_nonempty_untested(cfg, base_db) ==
    IF ~validate_vm_configuration(cfg)
    THEN [err |-> "ValidationError", chaindb |-> None]
    ELSE [err |-> "ok", chaindb |-> base_db]

\* Chain.__init__: the chain database is opened on base_db once the
\* configuration has passed
Chain_init(cfg, base_db) ==
    IF Len(cfg) = 0
    THEN [err |-> "ValueError", chaindb |-> None]
    ELSE IF ~validate_vm_configuration(cfg)
    THEN [err |-> "ValidationError", chaindb |-> None]
    ELSE [err |-> "ok", chaindb |-> base_db]

InitConstruct ==
    /\ vm_configuration \in AnyConfigs
    /\ chaindb = None
    /\ header = None
    /\ vm = None
    /\ ret = NoCall

\* Chain(base_db), base_db holding the genesis header
ConstructChain ==
    /\ ret = NoCall
    /\ chaindb' = Chain_init(vm_configuration, GenesisDB({})).chaindb
    /\ ret' = [op |-> "Chain", err |-> Chain_init(vm_configuration, GenesisDB({})).err]
    /\ UNCHANGED <<vm_configuration, header, vm>>

NextConstruct == ConstructChain

SpecConstruct == InitConstruct /\ [][NextConstruct]_vars

\* C32: the construction of a chain succeeds only on a configuration that is
\* not empty, ascends by starting block and starts at the block number of
\* genesis; with an empty configuration it fails with ValueError, and whenever
\* it fails the chain database has not been opened.
NoChainWithInvalidConfiguration ==
    (ret # NoCall /\ ret.op = "Chain") =>
        /\ ret.err = "ok" =>
              /\ Len(vm_configuration) >= 1
              /\ IsSortedConfig(vm_configuration)
              /\ vm_configuration[1].start_block = 0
        /\ Len(vm_configuration) = 0 => ret.err = "ValueError"
        /\ ret.err # "ok" => chaindb = None

\* The construction was refused for a configuration that is not empty and
\* whose entries do not ascend
NoChainWithInvalidConfigurationWitness ==
    /\ ret # NoCall /\ ret.op = "Chain"
    /\ Len(vm_configuration) >= 2
    /\ ~IsSortedConfig(vm_configuration)
    /\ ret.err = "ValidationError"
    /\ chaindb = None

(***************************************************************************)
(* Precompiles (src/xvm/precompiles/sha256.py, blake2.py).                 *)
(***************************************************************************)
MaxDataLen == 65            \* longest input of sha256 explored, in bytes
MaxPrecompileGas == 100     \* largest gas of the frame of a precompile
MaxRounds == 3              \* most rounds a blake2b input asks for
GAS_SHA256 == 60
GAS_SHA256WORD == 12
GAS_COST_PER_ROUND == 1
BLAKE2B_INPUT_LENGTH == 213

\* The input of a message: its length, and what blake2b reads in it (the
\* rounds in its first four bytes, the final-block flag in its last byte)
MessageData(lengths, rounds, flags) == [length : lengths, rounds : rounds, flag : flags]

\* The frame of a precompile: msg.data, the gas of the meter, the output
PrecompileComputation(data, gas) == [data |-> data, gas |-> gas, output |-> <<>>]

\* What a call leaves: the exception it raised, if any, and the computation
\* as it is then
returned(computation) == [raised |-> NoError, computation |-> computation]
raised(kind, computation) == [raised |-> kind, computation |-> computation]

\* GasMeter.consume_gas, as Computation.consume_gas calls it
Computation_consume_gas(computation, amount) ==
    IF amount > computation.gas
    THEN raised("OutOfGas", computation)
    ELSE returned([computation EXCEPT !.gas = @ - amount])

\* hashlib.sha256(...).digest() and blake2b_compress(...)
digest(algorithm, data) == <<algorithm, data>>

\* sha256 after its charge
sha256_charged(charge, data) ==
    IF charge.raised # NoError THEN charge
    ELSE returned([charge.computation EXCEPT !.output = digest("sha256", data)])

\* A mutant of sha256: the output is written before the gas is consumed.
sha256_output_first(computation) ==
    LET written == [computation EXCEPT !.output = digest("sha256", computation.data)]
    IN  Computation_consume_gas(written,
            GAS_SHA256 + (ceil32(computation.data.length) \div 32) * GAS_SHA256WORD)

\* sha256
sha256(computation) ==
    sha256_charged(
        Computation_consume_gas(computation,
            GAS_SHA256 + (ceil32(computation.data.length) \div 32) * GAS_SHA256WORD),
        computation.data)

\* extract_blake2b_parameters: the input has the one length and a final-block
\* flag of 0 or 1
extract_blake2b_parameters(data) ==
    IF data.length # BLAKE2B_INPUT_LENGTH \/ data.flag \notin {0, 1}
    THEN [err |-> "ValidationError", num_rounds |-> 0]
    ELSE [err |-> "ok", num_rounds |-> data.rounds]

\* blake2b_fcompress after its charge
blake2b_charged(charge, data) ==
    IF charge.raised # NoError THEN charge
    ELSE returned([charge.computation EXCEPT !.output = digest("blake2b", data)])

\* blake2b_fcompress
blake2b_fcompress(computation) ==
    IF extract_blake2b_parameters(computation.data).err # "ok"
    THEN raised("VMError", computation)
    ELSE blake2b_charged(
             Computation_consume_gas(computation,
                 GAS_COST_PER_ROUND * extract_blake2b_parameters(computation.data).num_rounds),
             computation.data)

\* The messages sent to the precompiles
PrecompileData ==
    MessageData(0..MaxDataLen, {0}, {0})
    \cup MessageData({BLAKE2B_INPUT_LENGTH - 1, BLAKE2B_INPUT_LENGTH}, 0..MaxRounds, {0, 1, 2})

InitPrecompile ==
    /\ vm_configuration = None
    /\ chaindb = None
    /\ header = None
    /\ \E data \in PrecompileData, gas \in 0..MaxPrecompileGas :
          vm = PrecompileComputation(data, gas)
    /\ ret = NoCall

Sha256 ==
    /\ ret = NoCall
    /\ ret' = [op |-> "sha256"] @@ sha256(vm)
    /\ UNCHANGED <<vm_configuration, chaindb, header, vm>>

Blake2bFCompress ==
    /\ ret = NoCall
    /\ ret' = [op |-> "blake2b_fcompress"] @@ blake2b_fcompress(vm)
    /\ UNCHANGED <<vm_configuration, chaindb, header, vm>>

NextPrecompile == Sha256 \/ Blake2bFCompress

SpecPrecompile == InitPrecompile /\ [][NextPrecompile]_vars

\* What a precompile that charges fee leaves of the computation it was given
charged_then_written(fee, algorithm) ==
    IF fee > vm.gas
    THEN /\ ret.raised = "OutOfGas"
         /\ ret.computation.output = vm.output
    ELSE /\ ret.raised = NoError
         /\ ret.computation.gas = vm.gas - fee
         /\ ret.computation.output = digest(algorithm, vm.data)

\* C33: sha256 charges GAS_SHA256 plus GAS_SHA256WORD for each 32-byte word
\* that holds the input, blake2b_fcompress charges GAS_COST_PER_ROUND for each
\* round; the output is written if the gas suffices and is left as it was if
\* not; a blake2b input that fails validation raises VMError, which burns the
\* gas, and the output is left as it was.
PrecompileChargesBeforeOutput ==
    /\ (ret # NoCall /\ ret.op = "sha256") =>
          charged_then_written(GAS_SHA256 + words_for(vm.data.length) * GAS_SHA256WORD, "sha256")
    /\ (ret # NoCall /\ ret.op = "blake2b_fcompress") =>
          IF vm.data.length = BLAKE2B_INPUT_LENGTH /\ vm.data.flag \in {0, 1}
          THEN charged_then_written(GAS_COST_PER_ROUND * vm.data.rounds, "blake2b")
          ELSE /\ ret.raised = "VMError"
               /\ burns_gas(ret.raised)
               /\ ret.computation.output = vm.output

\* sha256 was refused for lack of the gas of the last word of its input
PrecompileChargesBeforeOutputWitness ==
    /\ ret # NoCall /\ ret.op = "sha256"
    /\ vm.data.length = 33
    /\ vm.gas = GAS_SHA256 + 2 * GAS_SHA256WORD - 1
    /\ ret.raised = "OutOfGas"
    /\ ret.computation.output = <<>>

(***************************************************************************)
(* The working header of a MiningChain across its operations.              *)
(***************************************************************************)

\* MiningChain.mine_all after persist_block (lines 615-622)
mine_all_advance(cfg, mined, persisted, hdr) ==
    IF persisted.err # "ok"
    THEN [err |-> persisted.err, db |-> persisted.db, header |-> hdr]
    ELSE IF Chain_create_header_from_parent(cfg, mined.block.header).err # "ok"
    THEN [err |-> Chain_create_header_from_parent(cfg, mined.block.header).err,
          db |-> persisted.db, header |-> hdr]
    ELSE [err |-> "ok", db |-> persisted.db,
          header |-> Chain_create_header_from_parent(cfg, mined.block.header).value]

\* MiningChain.mine_all after vm.mine_block (lines 612-622)
mine_all_mined(cfg, mined, hdr) ==
    IF mined.err # "ok"
    THEN [err |-> mined.err, db |-> mined.db, header |-> hdr]
    ELSE mine_all_advance(cfg, mined,
             Chain_persist_block(cfg, mined.db, mined.block, TRUE), hdr)

\* MiningChain.mine_all after apply_all_transactions (lines 607-622)
mine_all_applied(cfg, db, hdr, vm_block, transactions, applied) ==
    IF applied.err # "ok"
    THEN [err |-> applied.err, db |-> db, header |-> hdr]
    ELSE IF ~unpacks_into(applied.value, 3)   \* new_header, receipts, computations = ...
    THEN [err |-> "ValueError", db |-> db, header |-> hdr]
    ELSE mine_all_mined(cfg,
             import_block_mine(
                 VM_set_block_transactions(db, vm_block, applied.value[1],
                                           transactions, applied.value[2]),
                 applied.state),
             hdr)

\* MiningChain.mine_all on base_header, the VM being the one of that header
mine_all_on(cfg, db, hdr, transactions, base_header) ==
    IF Chain_get_vm(cfg, base_header) # "ok"
    THEN [err |-> Chain_get_vm(cfg, base_header), db |-> db, header |-> hdr]
    ELSE mine_all_applied(cfg, db, hdr, Block_from_header(db, base_header), transactions,
             apply_all_transactions(build_state(db, base_header), base_header,
                                    transactions, base_header))

\* MiningChain.mine_all(transactions, parent_header=...) with the working
\* header hdr; given is FALSE when parent_header is None
MiningChain_mine_all(cfg, db, hdr, transactions, given, parent_header) ==
    IF ~given
    THEN mine_all_on(cfg, db, hdr, transactions, hdr)
    ELSE IF Chain_create_header_from_parent(cfg, parent_header).err # "ok"
    THEN [err |-> Chain_create_header_from_parent(cfg, parent_header).err,
          db |-> db, header |-> hdr]
    ELSE mine_all_on(cfg, db, hdr, transactions,
                     Chain_create_header_from_parent(cfg, parent_header).value)

\* chain.mine_all(transactions)
MineAll(transactions) ==
    /\ chaindb' = MiningChain_mine_all(vm_configuration, chaindb, header, transactions,
                                       FALSE, header).db
    /\ header' = MiningChain_mine_all(vm_configuration, chaindb, header, transactions,
                                      FALSE, header).header
    /\ ret' = [op |-> "mine_all", transactions |-> transactions,
               err |-> MiningChain_mine_all(vm_configuration, chaindb, header,
                                            transactions, FALSE, header).err]
    /\ UNCHANGED <<vm_configuration, vm>>

NextMining ==
    \/ \E block \in ImportedBlocks(chaindb), pv \in BOOLEAN : ImportBlock(block, pv)
    \/ \E tx \in ChainTransactions : ApplyTransaction(tx)
    \/ \E extra \in {-1, extra_data_max_bytes + 1} : MineBlock(extra)
    \/ \E txs \in ChainTxSeqs : MineAll(txs)

SpecMining == Init /\ [][NextMining]_vars

ImportResetsWorkingHeader ==
    [][(/\ ret'.op = "import_block"
        /\ parent_known(chaindb, ret'.block)
        /\ executes(chaindb, ret'.block)
        /\ ret'.block = recomputed(chaindb, ret'.block))
       => /\ ret'.err = "ok"
          /\ header' = Chain_ensure_header(vm_configuration, chaindb').value
          /\ header'.gas_used = 0
          /\ header'.transaction_root = BLANK_ROOT_HASH]_vars

\* C36: an apply_transaction call of the chain that fails leaves the working
\* header as it was, and the block of the working header has the transactions
\* and the receipts it had.
FailedApplyLeavesWorkingBlock ==
    [][(ret'.op = "apply_transaction" /\ ret'.err # "ok")
       => /\ ret'.err \in {"ValidationError", "EVMMissingData"}
          /\ header' = header
          /\ Block_from_header(chaindb', header').transactions
               = Block_from_header(chaindb, header).transactions
          /\ Block_get_receipts(chaindb', Block_from_header(chaindb', header'))
               = Block_get_receipts(chaindb, Block_from_header(chaindb, header))]_vars

\* A transaction was refused on a working header that already holds one
FailedApplyLeavesWorkingBlockWitness ==
    /\ ret.op = "apply_transaction"
    /\ ret.err = "ValidationError"
    /\ header.gas_used > 0
    /\ Len(Block_from_header(chaindb, header).transactions) = 1

(***************************************************************************)
(* One VM object asked to work on headers and blocks of its own block      *)
(* number and of another.                                                  *)
(***************************************************************************)
MaxOpenSnapshots == 2   \* apply_all_transactions is called while the state has
                        \* fewer open snapshots than this

\* vm.apply_all_transactions(transactions, base_header) on the instance
instance_apply_all_transactions(inst, transactions, base_header) ==
    instance_applied(inst,
        apply_all_transactions(inst.state, inst.block.header, transactions, base_header))

InstanceApplyAllTransactions(transactions, base_header) ==
    /\ Len(vm.state.snapshots) < MaxOpenSnapshots
    /\ vm' = instance_apply_all_transactions(vm, transactions, base_header).inst
    /\ ret' = [op |-> "apply_all_transactions", transactions |-> transactions,
               base_header |-> base_header,
               err |-> instance_apply_all_transactions(vm, transactions, base_header).err]
    /\ UNCHANGED <<vm_configuration, chaindb, header>>

NextOneNumber ==
    \/ \E tx \in InstanceTransactions : InstanceApplyTransaction(tx)
    \/ \E block \in InstanceBlocks : InstanceImportBlock(block)
    \/ \E txs \in InstanceTxSeqs, base \in BaseHeaders :
          InstanceApplyAllTransactions(txs, base)

SpecOneNumber == InitInstance /\ [][NextOneNumber]_vars

\* C37: apply_all_transactions with a base header, and import_block with a
\* block, of another block number than the VM's fail with ValidationError, and
\* the VM is as it was: its block, its state with the accounts and the open
\* snapshots it had, and the database.
OtherBlockNumberRefusedUntouched ==
    [][(\/ /\ ret'.op = "apply_all_transactions"
           /\ ret'.base_header.block_number # vm.block.header.block_number
        \/ /\ ret'.op = "import_block"
           /\ ret'.block.header.block_number # vm.block.header.block_number)
       => /\ ret'.err = "ValidationError"
          /\ vm' = vm
          /\ chaindb' = chaindb]_vars

\* apply_all_transactions was refused transactions on a header of another
\* number, on a VM whose state holds changes
OtherBlockNumberRefusedUntouchedWitness ==
    /\ ret.op = "apply_all_transactions"
    /\ ret.base_header.block_number # vm.block.header.block_number
    /\ Len(ret.transactions) > 0
    /\ ret.err = "ValidationError"
    /\ has_pending_changes(vm)

(***************************************************************************)
(* Chain.persist_block called with blocks of every kind.                   *)
(***************************************************************************)

\* The blocks handed to persist_block: the genesis block, and the empty block
\* on a header the database holds or on one it does not, right or wrong in one
\* field
PersistFlaws == {"none", "parent_hash", "extra_data", "block_number"}

persisted_header(parent, flaw) ==
    IF flaw = "block_number"
    THEN [VM_create_header_from_parent(parent) EXCEPT !.block_number = @ + 1]
    ELSE flawed_header(VM_create_header_from_parent(parent), flaw)

PersistedBlocks(db) ==
    {Block_from_header(db, GenesisHeader)}
    \cup { Block_from_header(db, persisted_header(parent, flaw)) :
             parent \in { h \in db.headers : h.block_number < MaxHeight } \cup {UnknownHeader},
             flaw \in PersistFlaws }

\* chain.persist_block(block, perform_validation)
PersistBlock(block, perform_validation) ==
    /\ chaindb' = Chain_persist_block(vm_configuration, chaindb, block,
                                      perform_validation).db
    /\ ret' = [op |-> "persist_block", block |-> block,
               perform_validation |-> perform_validation,
               err |-> Chain_persist_block(vm_configuration, chaindb, block,
                                           perform_validation).err]
    /\ UNCHANGED <<vm_configuration, header, vm>>

NextPersist ==
    \E block \in PersistedBlocks(chaindb), pv \in BOOLEAN : PersistBlock(block, pv)

SpecPersist == Init /\ [][NextPersist]_vars

\* Whether the header of a block passes the header rules against its parent
\* in the database
header_valid_in(db, block) ==
    /\ ChainDB_has_header(db, block.header.parent_hash)
    /\ VM_validate_header(block.header,
           ChainDB_get_block_header_by_hash(db, block.header.parent_hash).value)

\* C38: persist_block with validation, given the genesis block or a block
\* whose header does not pass the header rules against its parent, fails, and
\* the chain database is the one before the call, canonical head included.
InvalidBlockNeverPersisted ==
    [][(/\ ret'.op = "persist_block"
        /\ ret'.perform_validation
        /\ \/ ret'.block.header.block_number = 0
           \/ ~header_valid_in(chaindb, ret'.block))
       => /\ ret'.err # "ok"
          /\ chaindb' = chaindb
          /\ ChainDB_get_canonical_head(chaindb') = ChainDB_get_canonical_head(chaindb)]_vars

\* A block whose extra data is too long, on a header of a database that holds
\* other blocks, was refused, and the database does not hold its header
InvalidBlockNeverPersistedWitness ==
    /\ ret.op = "persist_block"
    /\ ret.perform_validation
    /\ ChainDB_has_header(chaindb, ret.block.header.parent_hash)
    /\ ret.block.header.extra_data > extra_data_max_bytes
    /\ ret.err = "ValidationError"
    /\ ret.block.header \notin chaindb.headers
    /\ Cardinality(chaindb.headers) > 1

\* C39: import_block without validation, of a block one above its known parent
\* whose transactions run, succeeds whatever else the block declares, and what the
\* database then holds is the header recomputed from the parent, with the
\* computed state root, gas used and receipt root.
ImportPersistsRecomputedBlock ==
    (/\ ret.op = "import_block"
     /\ ~ret.perform_validation
     /\ parent_known(chaindb, ret.block)
     /\ ret.block.header.block_number = parent_of(chaindb, ret.block).block_number + 1
     /\ executes(chaindb, ret.block))
    => /\ ret.err = "ok"
       /\ ret.value.imported_block = recomputed(chaindb, ret.block)
       /\ recomputed(chaindb, ret.block).header \in chaindb.headers

(***************************************************************************)
(* Initialization of the chain database (src/xvm/initialization.py,        *)
(* Chain.from_genesis).                                                    *)
(***************************************************************************)

\* A chain database nothing was written to
EmptyDB(missing) ==
    [headers |-> {}, canonical |-> <<>>, head |-> GENESIS_PARENT_HASH,
     state_roots |-> {}, tries |-> {BLANK_ROOT_HASH}, tx_index |-> {},
     missing |-> missing]

\* chaindb.get_canonical_head(): CanonicalHeadNotFound on an empty chain
ChainDB_canonical_head_lookup(db) ==
    IF db.canonical = <<>>
    THEN [err |-> "CanonicalHeadNotFound", value |-> [block_number |-> -1]]
    ELSE [err |-> "ok", value |-> ChainDB_get_canonical_head(db)]

is_database_initialized(db) == ChainDB_canonical_head_lookup(db).err = "ok"

\* chaindb.persist_header of a genesis header
ChainDB_persist_header(db, h) ==
    [db EXCEPT !.headers = @ \cup {h}, !.canonical = <<Hash(h)>>, !.head = Hash(h)]

\* Chain.from_genesis_header: the header is persisted, then the chain is
\* constructed
Chain_from_genesis_header(cfg, db, genesis_header) ==
    [err |-> Chain_init(cfg, ChainDB_persist_header(db, genesis_header)).err,
     db |-> ChainDB_persist_header(db, genesis_header)]

\* Chain.from_genesis once the genesis state is persisted in db; genesis_params
\* names a state root (given) or leaves it to the computed one
from_genesis_persisted(cfg, db, genesis_params, state_root) ==
    IF genesis_params.given /\ genesis_params.state_root # state_root
    THEN [err |-> "ValidationError", db |-> db]
    ELSE Chain_from_genesis_header(cfg, db, [GenesisHeader EXCEPT !.state_root = state_root])

\* Chain.from_genesis
Chain_from_genesis(cfg, db, genesis_params, genesis_state) ==
    IF get_vm_class_for_block_number(cfg, GenesisHeader.block_number).err # "ok"
    THEN [err |-> get_vm_class_for_block_number(cfg, GenesisHeader.block_number).err,
          db |-> db]
    ELSE from_genesis_persisted(cfg,
             [db EXCEPT !.state_roots = @ \cup {make_state_root(genesis_state)}],
             genesis_params, make_state_root(genesis_state))

\* A mutant of initialize_database: the chain is initialized whatever the
\* database holds.
initialize_database_unconditional(cfg, chain_config, db) ==
    Chain_from_genesis(cfg, db, chain_config.genesis_params, chain_config.genesis_state)

\* initialize_database; chain_config.initialize_chain is Chain.from_genesis on
\* the configuration's genesis parameters and state
initialize_database(cfg, chain_config, db) ==
    IF ChainDB_canonical_head_lookup(db).err = "CanonicalHeadNotFound"
    THEN Chain_from_genesis(cfg, db, chain_config.genesis_params, chain_config.genesis_state)
    ELSE [err |-> "ok", db |-> db]

\* The chain configurations: a genesis state, and genesis parameters without
\* state root, with the state root of the genesis state, or with another
GenesisStates == {GenesisAccounts, [x \in Accounts |-> IF x = "a" THEN 1 ELSE 0]}

ChainConfigs ==
    { [genesis_state |-> st,
       genesis_params |-> [given |-> given, state_root |-> make_state_root(declared_state)]] :
        st \in GenesisStates, declared_state \in GenesisStates, given \in BOOLEAN }

InitializeConfigs == { cfg \in AnyConfigs : Len(cfg) <= 1 } \cup {ChainConfiguration}

InitDatabase ==
    /\ vm_configuration \in InitializeConfigs
    /\ chaindb \in {EmptyDB({}), GenesisDB({})}
    /\ header = None
    /\ vm \in ChainConfigs
    /\ ret = NoCall

InitializeDatabase ==
    /\ chaindb' = initialize_database(vm_configuration, vm, chaindb).db
    /\ ret' = [op |-> "initialize_database",
               err |-> initialize_database(vm_configuration, vm, chaindb).err,
               initialized_before |-> is_database_initialized(chaindb)]
    /\ UNCHANGED <<vm_configuration, header, vm>>

IsDatabaseInitialized ==
    /\ ret' = [op |-> "is_database_initialized", value |-> is_database_initialized(chaindb)]
    /\ UNCHANGED <<vm_configuration, chaindb, header, vm>>

NextDatabase == InitializeDatabase \/ IsDatabaseInitialized

SpecDatabase == InitDatabase /\ [][NextDatabase]_vars

\* C40: initialize_database changes the database only when it has no canonical
\* head; on a database that has one it succeeds and changes nothing; after it
\* has succeeded the database has a canonical head; and a second call leaves
\* the database the first call left.
InitializeDatabaseOnlyOnce ==
    [][ret'.op = "initialize_database"
       => /\ is_database_initialized(chaindb) => (ret'.err = "ok" /\ chaindb' = chaindb)
          /\ chaindb' # chaindb => ~is_database_initialized(chaindb)
          /\ ret'.err = "ok" => is_database_initialized(chaindb')
          /\ initialize_database(vm_configuration, vm, chaindb').db = chaindb']_vars

\* The database was initialized with a genesis state that is not empty, and a
\* further call has left it alone
InitializeDatabaseOnlyOnceWitness ==
    /\ ret.op = "initialize_database"
    /\ ret.err = "ok"
    /\ ret.initialized_before
    /\ ChainDB_get_canonical_head(chaindb).block_number = 0
    /\ ChainDB_get_canonical_head(chaindb).state_root = make_state_root(vm.genesis_state)
    /\ vm.genesis_state # GenesisAccounts

====
